---- MODULE Spec2Model ----
(***************************************************************************)
(* The Rusthon tree-walking interpreter (src/src/interpreter.rs) with the  *)
(* builtin registry (src/src/stdlib.rs), over syntax trees of the shape    *)
(* src/src/ast.rs defines and src/src/parser.rs produces.                  *)
(*                                                                         *)
(* The interpreter is a set of mutually recursive Rust methods.  The model *)
(* makes the host call stack explicit: `kont` is the sequence of live      *)
(* activations of run / exec_stmt / exec_block / eval_expr / eval_call /   *)
(* call_function, each with its position (pc) and locals; `rv` is the      *)
(* value the most recently finished activation returned to its caller.     *)
(* One action per method or per arm of exec_stmt / eval_expr; an action    *)
(* advances the top activation to its next call, return or panic.          *)
(***************************************************************************)
EXTENDS Integers, Sequences, FiniteSets, TLC

VARIABLES
    finished,   \* what each Interpreter that has finished its run was left holding
    input,      \* Lexer.input: the characters of the source text
    pos,        \* Lexer.pos: the number of characters of input read
    current_token, \* Parser.current_token
    program,    \* the Program handed to Interpreter::run
    env_stack,  \* Interpreter.env_stack: Vec<HashMap<String, Value>>
    functions,  \* Interpreter.functions: HashMap<String, Function>
    kont,       \* the host call stack of interpreter activations
    rv,         \* return value of the activation that returned last
    status,     \* "running" | "done" | "panic"
    err,        \* the panic message once status = "panic"
    output,     \* lines written to standard output by print
    next_id     \* auxiliary: identity given to the next pushed scope frame

vars ==
    <<finished, input, pos, current_token, program, env_stack, functions, kont, rv, status, err, output,
      next_id>>

(***************************************************************************)
(* Bounds of the checked program space.                                    *)
(***************************************************************************)
MaxLit == 2
MaxCallDepth == 2
MaxIter == 2
\* Value::Int is an i64.  The model gives it IntBits bits, two's complement,
\* so that the least integer, whose negation is out of range, can be reached.
IntBits == 8
\* The number of next_token() calls made on one Lexer.
MaxScan == 6
\* The number of Interpreter instances the same Program is run on.
Instances == 2

(***************************************************************************)
(* Option<T>                                                               *)
(***************************************************************************)
None == <<>>
Some(v) == <<v>>

(***************************************************************************)
(* ast.rs: Type, Expr, BinOp, Stmt, Function, Program                      *)
(***************************************************************************)
Type == {"int", "bool", "str", "list"}
BinOp == {"Add", "Sub", "Mul", "Div", "Eq", "NotEq", "Lt", "LtEq", "Gt", "GtEq"}

EInt(n) == [k |-> "Int", n |-> n]
EBool(b) == [k |-> "Bool", b |-> b]
EStr(s) == [k |-> "Str", s |-> s]
EVar(name) == [k |-> "Var", name |-> name]
EBinary(left, op, right) == [k |-> "Binary", left |-> left, op |-> op, right |-> right]
ECall(callee, args) == [k |-> "Call", callee |-> callee, args |-> args]
EListLiteral(items) == [k |-> "ListLiteral", items |-> items]

SVarDecl(name, ty, init) == [k |-> "VarDecl", name |-> name, ty |-> ty, init |-> init]
SExprStmt(expr) == [k |-> "ExprStmt", expr |-> expr]
SAssign(name, expr) == [k |-> "Assign", name |-> name, expr |-> expr]
SReturn(expr_opt) == [k |-> "Return", expr_opt |-> expr_opt]
SElseIfBranch(cond, then_branch) == [k |-> "ElseIfBranch", cond |-> cond, then_branch |-> then_branch]
SBranch(cond, then_branch, else_if_branches, else_branch) == [k |-> "Branch", cond |-> cond, then_branch |-> then_branch, else_if_branches |-> else_if_branches, else_branch |-> else_branch]
SWhile(cond, body) == [k |-> "While", cond |-> cond, body |-> body]
SFor(init, cond, step, body) == [k |-> "For", init |-> init, cond |-> cond, step |-> step, body |-> body]
SForEach(var_name, iter_expr, body) == [k |-> "ForEach", var_name |-> var_name, iter_expr |-> iter_expr, body |-> body]

Function(name, params, body) == [name |-> name, params |-> params, body |-> body]
Program(fs, stmts) == [functions |-> fs, stmts |-> stmts]

(***************************************************************************)
(* interpreter.rs: Value.  A Str holds its characters as a sequence of     *)
(* one-character strings, a List a sequence of Values.                     *)
(***************************************************************************)
VInt(n) == [tag |-> "Int", v |-> n]
VBool(b) == [tag |-> "Bool", v |-> b]
VStr(s) == [tag |-> "Str", v |-> s]
VList(xs) == [tag |-> "List", v |-> xs]
VUnit == [tag |-> "Unit", v |-> 0]

(***************************************************************************)
(* HashMap<String, V>: a function on the set of its keys.                  *)
(***************************************************************************)
EmptyMap == [n \in {} |-> VUnit]
MapInsert(m, key, val) == [n \in (DOMAIN m) \cup {key} |-> IF n = key THEN val ELSE m[n]]

(***************************************************************************)
(* Scope frames.  `id` is auxiliary: it tells one frame from another that  *)
(* later takes its place on the stack.                                     *)
(***************************************************************************)
Frame(id, m) == [id |-> id, vars |-> m]
GlobalId == 0
Ids(stack) == [j \in 1..Len(stack) |-> stack[j].id]

\* Interpreter::push_env
push_env(stack, id) == Append(stack, Frame(id, EmptyMap))

\* Interpreter::pop_env
pop_env(stack) == SubSeq(stack, 1, Len(stack) - 1)

\* define_var as it would be if it updated an existing binding of an outer
\* frame instead of binding in the innermost one.
define_var_updates_outer(stack, name, value) ==
    IF \E j \in 1..Len(stack) : name \in DOMAIN stack[j].vars
    THEN [stack EXCEPT ![CHOOSE j \in 1..Len(stack) :
                            /\ name \in DOMAIN stack[j].vars
                            /\ \A l \in 1..(j - 1) : name \notin DOMAIN stack[l].vars].vars[name] = value]
    ELSE [stack EXCEPT ![Len(stack)].vars =
             [n \in (DOMAIN stack[Len(stack)].vars) \cup {name} |->
                 IF n = name THEN value ELSE stack[Len(stack)].vars[n]]]

\* Interpreter::define_var
define_var(stack, name, value) ==
    [stack EXCEPT ![Len(stack)].vars = MapInsert(stack[Len(stack)].vars, name, value)]

\* The frames that bind `name`, as indices of the stack.
Binders(stack, name) == {j \in 1..Len(stack) : name \in DOMAIN stack[j].vars}
MaxOf(S) == CHOOSE j \in S : \A l \in S : l <= j

\* assign_var as it would be if it kept the tag of the value it replaces.
assign_var_same_tag(stack, name, value) ==
    IF Binders(stack, name) = {} THEN None
    ELSE IF stack[MaxOf(Binders(stack, name))].vars[name].tag # value.tag THEN None
    ELSE Some([stack EXCEPT ![MaxOf(Binders(stack, name))].vars[name] = value])

\* assign_var as it would be with the frames searched without `.rev()`.
assign_var_outermost(stack, name, value) ==
    IF Binders(stack, name) = {} THEN None
    ELSE Some([stack EXCEPT
                 ![CHOOSE j \in Binders(stack, name) :
                      \A l \in Binders(stack, name) : j <= l].vars[name] = value])

\* Interpreter::assign_var: None when the loop finds no frame (the panic).
assign_var(stack, name, value) ==
    IF Binders(stack, name) = {} THEN None
    ELSE Some([stack EXCEPT ![MaxOf(Binders(stack, name))].vars[name] = value])

\* Interpreter::get_var
get_var(stack, name) ==
    IF Binders(stack, name) = {} THEN None
    ELSE Some(stack[MaxOf(Binders(stack, name))].vars[name])

\* value_matches_type as it would be with a `(Value::Unit, _) => true` arm.
value_matches_type_unit(value, ty) ==
    \/ value.tag = "Int" /\ ty = "int"
    \/ value.tag = "Bool" /\ ty = "bool"
    \/ value.tag = "Str" /\ ty = "str"
    \/ value.tag = "List" /\ ty = "list"
    \/ value.tag = "Unit"

\* Interpreter::value_matches_type
value_matches_type(value, ty) ==
    \/ value.tag = "Int" /\ ty = "int"
    \/ value.tag = "Bool" /\ ty = "bool"
    \/ value.tag = "Str" /\ ty = "str"
    \/ value.tag = "List" /\ ty = "list"

(***************************************************************************)
(* interpreter.rs: eval_bin.  A result is Ok(value) or Panic(message).     *)
(***************************************************************************)
Ok(v) == [t |-> "ok", v |-> v]
PanicR(msg) == [t |-> "panic", msg |-> msg]

\* Characters outside ASCII that the checked programs use, written by their
\* code point: U+044F takes two bytes in UTF-8.
TwoByteChars == {"u044f"}
Utf8Len(ch) == IF ch \in TwoByteChars THEN 2 ELSE 1

\* String::len(): the length in bytes.
RECURSIVE StrByteLen(_)
StrByteLen(s) == IF s = <<>> THEN 0 ELSE Utf8Len(Head(s)) + StrByteLen(Tail(s))

\* i64::MAX and i64::MIN at the model's width.
IntMax == 2 ^ (IntBits - 1) - 1
IntMin == 0 - IntMax - 1

Abs(a) == IF a < 0 THEN 0 - a ELSE a

\* i64 `/` as it would be if it rounded toward negative infinity.
TruncDiv_floor(a, b) == IF b > 0 THEN a \div b ELSE (0 - a) \div (0 - b)

\* i64 `/` for a non-zero divisor: the quotient truncated toward zero.
TruncDiv(a, b) ==
    IF (a < 0) = (b < 0) THEN Abs(a) \div Abs(b) ELSE 0 - (Abs(a) \div Abs(b))

BothTag(left, right, tag) == left.tag = tag /\ right.tag = tag

eval_bin(left, op, right) ==
    CASE op = "Add" ->
           IF BothTag(left, right, "Int") THEN Ok(VInt(left.v + right.v))
           ELSE IF BothTag(left, right, "Str") THEN Ok(VStr(left.v \o right.v))
           ELSE PanicR("Type error in '+'")
      [] op = "Sub" ->
           IF BothTag(left, right, "Int") THEN Ok(VInt(left.v - right.v))
           ELSE PanicR("Type error, you can't subtract non-int values")
      [] op = "Div" ->
           IF BothTag(left, right, "Int")
           THEN IF right.v = 0 THEN PanicR("attempt to divide by zero")
                ELSE IF left.v = IntMin /\ right.v = 0 - 1
                THEN PanicR("attempt to divide with overflow")
                ELSE Ok(VInt(TruncDiv(left.v, right.v)))
           ELSE PanicR("Type error, you can't divide non-int values")
      [] op = "Mul" ->
           IF BothTag(left, right, "Int") THEN Ok(VInt(left.v * right.v))
           ELSE PanicR("Type error, you can't multiply non-int values")
      [] op = "Eq" ->
           IF \/ BothTag(left, right, "Int")
              \/ BothTag(left, right, "Bool")
              \/ BothTag(left, right, "Str")
           THEN Ok(VBool(left.v = right.v))
           ELSE PanicR("Type error in '=='")
      [] op = "Gt" ->
           IF BothTag(left, right, "Int") THEN Ok(VBool(left.v > right.v))
           ELSE IF BothTag(left, right, "Str")
           THEN Ok(VBool(StrByteLen(left.v) > StrByteLen(right.v)))
           ELSE PanicR("Type error in '>'")
      [] op = "GtEq" ->
           IF BothTag(left, right, "Int") THEN Ok(VBool(left.v >= right.v))
           ELSE IF BothTag(left, right, "Str")
           THEN Ok(VBool(StrByteLen(left.v) >= StrByteLen(right.v)))
           ELSE PanicR("Type error in '>='")
      [] op = "Lt" ->
           IF BothTag(left, right, "Int") THEN Ok(VBool(left.v < right.v))
           ELSE IF BothTag(left, right, "Str")
           THEN Ok(VBool(StrByteLen(left.v) < StrByteLen(right.v)))
           ELSE PanicR("Type error in '<'")
      [] op = "LtEq" ->
           IF BothTag(left, right, "Int") THEN Ok(VBool(left.v <= right.v))
           ELSE IF BothTag(left, right, "Str")
           THEN Ok(VBool(StrByteLen(left.v) <= StrByteLen(right.v)))
           ELSE PanicR("Type error in '<='")
      [] op = "NotEq" ->
           IF BothTag(left, right, "Int") \/ BothTag(left, right, "Str")
           THEN Ok(VBool(left.v # right.v))
           ELSE PanicR("Type error in '!='")

(***************************************************************************)
(* stdlib.rs: print_value and the text conversions the builtins use.       *)
(* Text is a sequence of one-character strings.                            *)
(***************************************************************************)
DigitChar(d) == CASE d = 0 -> "0" [] d = 1 -> "1" [] d = 2 -> "2" [] d = 3 -> "3"
                  [] d = 4 -> "4" [] d = 5 -> "5" [] d = 6 -> "6" [] d = 7 -> "7"
                  [] d = 8 -> "8" [] d = 9 -> "9"

RECURSIVE NatText(_)
NatText(n) == IF n < 10 THEN <<DigitChar(n)>> ELSE NatText(n \div 10) \o <<DigitChar(n % 10)>>

\* i64's Display: n.to_string(), print!("{n}")
IntText(n) == IF n < 0 THEN <<"-">> \o NatText(0 - n) ELSE NatText(n)

\* bool's Display
BoolText(b) == IF b THEN <<"t", "r", "u", "e">> ELSE <<"f", "a", "l", "s", "e">>

RECURSIVE JoinText(_, _)
JoinText(parts, sep) ==
    IF parts = <<>> THEN <<>>
    ELSE IF Len(parts) = 1 THEN parts[1]
    ELSE parts[1] \o sep \o JoinText(Tail(parts), sep)

\* #[derive(Debug)] on Value: format!("{:?}", v)
RECURSIVE DebugText(_)
DebugText(v) ==
    CASE v.tag = "Int" -> <<"I", "n", "t", "(">> \o IntText(v.v) \o <<")">>
      [] v.tag = "Bool" -> <<"B", "o", "o", "l", "(">> \o BoolText(v.v) \o <<")">>
      [] v.tag = "Str" -> <<"S", "t", "r", "(", "\"">> \o v.v \o <<"\"", ")">>
      [] v.tag = "List" ->
           <<"L", "i", "s", "t", "(", "[">>
           \o JoinText([j \in 1..Len(v.v) |-> DebugText(v.v[j])], <<",", " ">>)
           \o <<"]", ")">>
      [] v.tag = "Unit" -> <<"U", "n", "i", "t">>

\* One element of a list as print_value writes it.
PrintItemText(item) ==
    CASE item.tag = "Int" -> IntText(item.v)
      [] item.tag = "Bool" -> BoolText(item.v)
      [] item.tag = "Str" -> <<"\"">> \o item.v \o <<"\"">>
      [] item.tag = "Unit" -> <<"(", ")">>
      [] item.tag = "List" -> DebugText(item)

\* stdlib.rs: print_value
print_value(v) ==
    CASE v.tag = "Int" -> IntText(v.v)
      [] v.tag = "Bool" -> BoolText(v.v)
      [] v.tag = "Str" -> v.v
      [] v.tag = "Unit" -> <<"(", ")">>
      [] v.tag = "List" ->
           <<"[">> \o JoinText([j \in 1..Len(v.v) |-> PrintItemText(v.v[j])], <<",", " ">>) \o <<"]">>

\* The line print writes: the arguments separated by one space.
PrintLine(args) == JoinText([j \in 1..Len(args) |-> print_value(args[j])], <<" ">>)

Digits == {"0", "1", "2", "3", "4", "5", "6", "7", "8", "9"}
DigitVal(c) == CHOOSE d \in 0..9 : DigitChar(d) = c

RECURSIVE DigitsVal(_, _)
DigitsVal(s, acc) == IF s = <<>> THEN acc ELSE DigitsVal(Tail(s), acc * 10 + DigitVal(Head(s)))

AllDigits(s) == s # <<>> /\ \A j \in 1..Len(s) : s[j] \in Digits

\* str::parse::<i64>(): an optional sign, then one or more digits.
ParseInt(s) ==
    IF s # <<>> /\ Head(s) \in {"+", "-"}
    THEN IF AllDigits(Tail(s))
         THEN Some(IF Head(s) = "-" THEN 0 - DigitsVal(Tail(s), 0) ELSE DigitsVal(Tail(s), 0))
         ELSE None
    ELSE IF AllDigits(s) THEN Some(DigitsVal(s, 0)) ELSE None

(***************************************************************************)
(* stdlib.rs: call_builtin.  Handled(v, out): Some(v), having written the  *)
(* lines `out`; NotRecognized: None; PanicR(msg): the builtin panicked.    *)
(***************************************************************************)
Handled(v, out) == [t |-> "some", v |-> v, out |-> out]
NotRecognized == [t |-> "none"]

BuiltinNames == {"print", "len", "range", "push", "head", "tail", "str", "int"}

builtin_print(args) == Handled(VUnit, <<PrintLine(args)>>)

builtin_len(args) ==
    IF Len(args) # 1 THEN PanicR("len(x) expects exactly 1 argument")
    ELSE IF args[1].tag \in {"Str", "List"} THEN Handled(VInt(Len(args[1].v)), <<>>)
    ELSE PanicR("len(...) is not defined for value")

builtin_range(args) ==
    IF Len(args) # 1 THEN PanicR("range(n) expects exactly 1 argument")
    ELSE IF args[1].tag # "Int" THEN PanicR("range(n): n must be int")
    ELSE IF args[1].v < 0 THEN PanicR("range(n): n must be >= 0")
    ELSE Handled(VList([j \in 1..args[1].v |-> VInt(j - 1)]), <<>>)

builtin_push(args) ==
    IF Len(args) # 2 THEN PanicR("push(list, value) expects exactly 2 arguments")
    ELSE IF args[1].tag # "List" THEN PanicR("push(list, value): first arg must be list")
    ELSE Handled(VList(Append(args[1].v, args[2])), <<>>)

builtin_head(args) ==
    IF Len(args) # 1 THEN PanicR("head(list) expects exactly 1 argument")
    ELSE IF args[1].tag # "List" THEN PanicR("head(list): argument must be list")
    ELSE IF args[1].v = <<>> THEN PanicR("head([]): empty list")
    ELSE Handled(args[1].v[1], <<>>)

builtin_tail(args) ==
    IF Len(args) # 1 THEN PanicR("tail(list) expects exactly 1 argument")
    ELSE IF args[1].tag # "List" THEN PanicR("tail(list): argument must be list")
    ELSE IF args[1].v = <<>> THEN PanicR("tail([]): empty list")
    ELSE Handled(VList(Tail(args[1].v)), <<>>)

builtin_str(args) ==
    IF Len(args) # 1 THEN PanicR("str(x) expects exactly 1 argument")
    ELSE LET x == args[1] IN
         CASE x.tag = "Int" -> Handled(VStr(IntText(x.v)), <<>>)
           [] x.tag = "Bool" -> Handled(VStr(BoolText(x.v)), <<>>)
           [] x.tag = "Str" -> Handled(x, <<>>)
           [] x.tag = "List" ->
                Handled(VStr(<<"[">> \o JoinText([j \in 1..Len(x.v) |-> DebugText(x.v[j])], <<",", " ">>) \o <<"]">>), <<>>)
           [] x.tag = "Unit" -> Handled(VStr(<<"(", ")">>), <<>>)

builtin_int(args) ==
    IF Len(args) # 1 THEN PanicR("int(x) expects exactly 1 argument")
    ELSE LET x == args[1] IN
         CASE x.tag = "Int" -> Handled(x, <<>>)
           [] x.tag = "Bool" -> Handled(VInt(IF x.v THEN 1 ELSE 0), <<>>)
           [] x.tag = "Str" ->
                IF ParseInt(x.v) = None THEN PanicR("int(x): cannot parse string as integer")
                ELSE Handled(VInt(ParseInt(x.v)[1]), <<>>)
           [] OTHER -> PanicR("int(x) is not defined for")

call_builtin(name, args) ==
    CASE name = "print" -> builtin_print(args)
      [] name = "len" -> builtin_len(args)
      [] name = "range" -> builtin_range(args)
      [] name = "push" -> builtin_push(args)
      [] name = "head" -> builtin_head(args)
      [] name = "tail" -> builtin_tail(args)
      [] name = "str" -> builtin_str(args)
      [] name = "int" -> builtin_int(args)
      [] OTHER -> NotRecognized

(***************************************************************************)
(* Activations of the interpreter's methods.  fn: the method; node: the    *)
(* syntax-tree node (or Function) it works on; pc: its position; i: its    *)
(* loop index; acc: the values it has collected; ret: its `ret` local.     *)
(* e0 and esc are auxiliary: e0 is the identities of the scope frames at   *)
(* the activation's entry, esc the value of a `return` executed inside a   *)
(* while loop of a user function, noted on that loop and on that call.     *)
(***************************************************************************)
Act(fn, node, env) ==
    [fn |-> fn, node |-> node, pc |-> 0, i |-> 1, acc |-> <<>>, ret |-> None,
     e0 |-> Ids(env), esc |-> None, escw |-> FALSE]

Top == kont[Len(kont)]
Running == status = "running" /\ kont # <<>>
WithTop(fr) == [kont EXCEPT ![Len(kont)] = fr]
CallK(fr, callee) == Append(WithTop(fr), callee)
RetK == SubSeq(kont, 1, Len(kont) - 1)

Step(k2, rv2, env2, id2) ==
    /\ kont' = k2
    /\ rv' = rv2
    /\ env_stack' = env2
    /\ next_id' = id2
    /\ UNCHANGED <<finished, input, pos, current_token, program, functions, status, err, output>>

Goto(fr) == Step(WithTop(fr), rv, env_stack, next_id)
Invoke(fr, fn, node) == Step(CallK(fr, Act(fn, node, env_stack)), rv, env_stack, next_id)
Return(val) == Step(RetK, val, env_stack, next_id)

\* panic!: the run is aborted where it stands.
Panic(msg) ==
    /\ status' = "panic"
    /\ err' = msg
    /\ UNCHANGED <<finished, input, pos, current_token, program, env_stack, functions, kont, rv, output, next_id>>

InStmt(kind) == Running /\ Top.fn = "exec_stmt" /\ Top.node.k = kind
InExpr(kinds) == Running /\ Top.fn = "eval_expr" /\ Top.node.k \in kinds

(***************************************************************************)
(* Interpreter::new and the entry point's call of run                      *)
(***************************************************************************)
\* Interpreter::new as it would be with `env_stack: Vec::new()`.
EmptyEnvStack == <<>>
NewEnvStack == <<Frame(GlobalId, EmptyMap)>>

\* program.functions collected into a HashMap: a later definition of a name
\* replaces an earlier one.
function_table(fs) ==
    [n \in {fs[j].name : j \in 1..Len(fs)} |->
        fs[MaxOf({j \in 1..Len(fs) : fs[j].name = n})]]

\* Interpreter::run
Run ==
    /\ Running /\ Top.fn = "run"
    /\ LET fr == Top IN
       CASE fr.pc = 0 ->
              /\ functions' = function_table(fr.node.functions)
              /\ kont' = WithTop([fr EXCEPT !.pc = 1])
              /\ UNCHANGED <<finished, input, pos, current_token, program, env_stack, rv, status, err, output, next_id>>
         [] fr.pc = 1 /\ fr.i <= Len(fr.node.stmts) ->
              Invoke([fr EXCEPT !.i = fr.i + 1], "exec_stmt", fr.node.stmts[fr.i])
         [] fr.pc = 1 /\ fr.i > Len(fr.node.stmts) ->
              /\ status' = "done"
              /\ kont' = RetK
              /\ UNCHANGED <<finished, input, pos, current_token, program, env_stack, functions, rv, err, output, next_id>>

(***************************************************************************)
(* Interpreter::exec_stmt, one action per arm                              *)
(***************************************************************************)
ExecVarDecl ==
    /\ InStmt("VarDecl")
    /\ LET fr == Top IN
       CASE fr.pc = 0 -> Invoke([fr EXCEPT !.pc = 1], "eval_expr", fr.node.init)
         [] fr.pc = 1 ->
              IF ~value_matches_type(rv, fr.node.ty) THEN Panic("type error: variable declared as")
              ELSE Step(RetK, None, define_var(env_stack, fr.node.name, rv), next_id)

ExecExprStmt ==
    /\ InStmt("ExprStmt")
    /\ LET fr == Top IN
       CASE fr.pc = 0 -> Invoke([fr EXCEPT !.pc = 1], "eval_expr", fr.node.expr)
         [] fr.pc = 1 -> Return(None)

ExecAssign ==
    /\ InStmt("Assign")
    /\ LET fr == Top IN
       CASE fr.pc = 0 -> Invoke([fr EXCEPT !.pc = 1], "eval_expr", fr.node.expr)
         [] fr.pc = 1 ->
              IF assign_var(env_stack, fr.node.name, rv) = None
              THEN Panic("assignment to undeclared variable")
              ELSE Step(RetK, None, assign_var(env_stack, fr.node.name, rv)[1], next_id)

\* Auxiliary: note the value v of an executing `return` on the innermost
\* user-function call (esc; escw when a while loop of that call encloses the
\* return) and on those while loops (esc).  The first value noted stays.
InnermostCall(k) ==
    IF \E j \in 1..Len(k) : k[j].fn = "call_function"
    THEN MaxOf({j \in 1..Len(k) : k[j].fn = "call_function"})
    ELSE 0
EnclosingWhiles(k) ==
    {j \in (InnermostCall(k) + 1)..Len(k) : k[j].fn = "exec_stmt" /\ k[j].node.k = "While"}
NoteEscape(k, v) ==
    IF InnermostCall(k) = 0 THEN k
    ELSE [j \in 1..Len(k) |->
            IF k[j].esc # None THEN k[j]
            ELSE IF j = InnermostCall(k)
            THEN [k[j] EXCEPT !.esc = Some(v), !.escw = EnclosingWhiles(k) # {}]
            ELSE IF j \in EnclosingWhiles(k)
            THEN [k[j] EXCEPT !.esc = Some(v)]
            ELSE k[j]]

ExecReturn ==
    /\ InStmt("Return")
    /\ LET fr == Top IN
       CASE fr.pc = 0 /\ fr.node.expr_opt # None ->
              Invoke([fr EXCEPT !.pc = 1], "eval_expr", fr.node.expr_opt[1])
         [] fr.pc = 0 /\ fr.node.expr_opt = None ->
              Step(NoteEscape(RetK, VUnit), Some(VUnit), env_stack, next_id)
         [] fr.pc = 1 ->
              Step(NoteEscape(RetK, rv), Some(rv), env_stack, next_id)

IsTrue(v) == v.tag = "Bool" /\ v.v

ExecBranch ==
    /\ InStmt("Branch")
    /\ LET fr == Top
           elifs == fr.node.else_if_branches
       IN
       CASE fr.pc = 0 -> Invoke([fr EXCEPT !.pc = 1], "eval_expr", fr.node.cond)
         [] fr.pc = 1 ->
              IF IsTrue(rv) THEN Invoke([fr EXCEPT !.pc = 5], "exec_block", fr.node.then_branch)
              ELSE Goto([fr EXCEPT !.pc = 2])
         [] fr.pc = 2 ->
              IF fr.i <= Len(elifs)
              THEN Invoke([fr EXCEPT !.pc = 3], "eval_expr", elifs[fr.i].cond)
              ELSE Goto([fr EXCEPT !.pc = 4])
         [] fr.pc = 3 ->
              IF IsTrue(rv) THEN Invoke([fr EXCEPT !.pc = 5], "exec_block", elifs[fr.i].then_branch)
              ELSE Goto([fr EXCEPT !.pc = 2, !.i = fr.i + 1])
         [] fr.pc = 4 ->
              IF fr.node.else_branch # <<>>
              THEN Invoke([fr EXCEPT !.pc = 5], "exec_block", fr.node.else_branch)
              ELSE Return(None)
         [] fr.pc = 5 -> Return(rv)

\* The While arm as it would be with `_ => break` for a condition that is
\* not a Bool.
ExecWhile_nonbool_exits ==
    /\ InStmt("While")
    /\ LET fr == Top IN
       CASE fr.pc = 0 -> Invoke([fr EXCEPT !.pc = 1], "eval_expr", fr.node.cond)
         [] fr.pc = 1 ->
              IF IsTrue(rv) THEN Invoke([fr EXCEPT !.pc = 2], "exec_block", fr.node.body)
              ELSE Return(None)
         [] fr.pc = 2 ->
              IF rv # None THEN Return(rv) ELSE Goto([fr EXCEPT !.pc = 0])

ExecWhile ==
    /\ InStmt("While")
    /\ LET fr == Top IN
       CASE fr.pc = 0 -> Invoke([fr EXCEPT !.pc = 1], "eval_expr", fr.node.cond)
         [] fr.pc = 1 ->
              IF rv.tag # "Bool" THEN Panic("while condition must be bool")
              ELSE IF rv.v THEN Invoke([fr EXCEPT !.pc = 2], "exec_block", fr.node.body)
              ELSE Return(None)
         [] fr.pc = 2 ->
              IF rv # None THEN Return(rv) ELSE Goto([fr EXCEPT !.pc = 0])

\* The For arm as it would be without the pop_env before `return Some(v)`.
ExecFor_return_keeps_frame ==
    /\ InStmt("For")
    /\ LET fr == Top IN
       CASE fr.pc = 0 ->
              LET env == push_env(env_stack, next_id) IN
              IF fr.node.init # None
              THEN Step(CallK([fr EXCEPT !.pc = 1], Act("exec_stmt", fr.node.init[1], env)),
                        rv, env, next_id + 1)
              ELSE Step(WithTop([fr EXCEPT !.pc = 1]), rv, env, next_id + 1)
         [] fr.pc = 1 ->
              IF fr.node.cond # None
              THEN Invoke([fr EXCEPT !.pc = 2], "eval_expr", fr.node.cond[1])
              ELSE Invoke([fr EXCEPT !.pc = 3], "exec_block", fr.node.body)
         [] fr.pc = 2 ->
              IF rv.tag # "Bool" THEN Panic("for condition must be bool")
              ELSE IF rv.v THEN Invoke([fr EXCEPT !.pc = 3], "exec_block", fr.node.body)
              ELSE Step(RetK, None, pop_env(env_stack), next_id)
         [] fr.pc = 3 ->
              IF rv # None THEN Step(RetK, rv, env_stack, next_id)
              ELSE IF fr.node.step # None
              THEN Invoke([fr EXCEPT !.pc = 1], "exec_stmt", fr.node.step[1])
              ELSE Goto([fr EXCEPT !.pc = 1])

ExecFor ==
    /\ InStmt("For")
    /\ LET fr == Top IN
       CASE fr.pc = 0 ->
              LET env == push_env(env_stack, next_id) IN
              IF fr.node.init # None
              THEN Step(CallK([fr EXCEPT !.pc = 1], Act("exec_stmt", fr.node.init[1], env)),
                        rv, env, next_id + 1)
              ELSE Step(WithTop([fr EXCEPT !.pc = 1]), rv, env, next_id + 1)
         [] fr.pc = 1 ->
              \* the value init or step returned is dropped
              IF fr.node.cond # None
              THEN Invoke([fr EXCEPT !.pc = 2], "eval_expr", fr.node.cond[1])
              ELSE Invoke([fr EXCEPT !.pc = 3], "exec_block", fr.node.body)
         [] fr.pc = 2 ->
              IF rv.tag # "Bool" THEN Panic("for condition must be bool")
              ELSE IF rv.v THEN Invoke([fr EXCEPT !.pc = 3], "exec_block", fr.node.body)
              ELSE Step(RetK, None, pop_env(env_stack), next_id)
         [] fr.pc = 3 ->
              IF rv # None THEN Step(RetK, rv, pop_env(env_stack), next_id)
              ELSE IF fr.node.step # None
              THEN Invoke([fr EXCEPT !.pc = 1], "exec_stmt", fr.node.step[1])
              ELSE Goto([fr EXCEPT !.pc = 1])

\* The Int arm of for-each as it would be with `1..=n` in place of `0..n`.
foreach_items_from_one(iterable) ==
    CASE iterable.tag = "Int" -> [j \in 1..iterable.v |-> VInt(j)]
      [] iterable.tag = "Str" -> [j \in 1..Len(iterable.v) |-> VStr(<<iterable.v[j]>>)]
      [] iterable.tag = "List" -> iterable.v

\* What a for-each iterates over: 0..n-1, the characters, or the elements.
foreach_items(iterable) ==
    CASE iterable.tag = "Int" -> [j \in 1..iterable.v |-> VInt(j - 1)]
      [] iterable.tag = "Str" -> [j \in 1..Len(iterable.v) |-> VStr(<<iterable.v[j]>>)]
      [] iterable.tag = "List" -> iterable.v

\* The for-each arm as it would be if it iterated over the iterable
\* expression itself, evaluating it again after every pass of the body.
ExecForEach_reads_again ==
    /\ InStmt("ForEach")
    /\ LET fr == Top IN
       CASE fr.pc = 0 -> Invoke([fr EXCEPT !.pc = 1], "eval_expr", fr.node.iter_expr)
         [] fr.pc = 1 ->
              IF rv.tag \notin {"Int", "Str", "List"}
              THEN Panic("for-each can iterate only over int, string or list")
              ELSE IF rv.tag = "Int" /\ rv.v < 0
              THEN Panic("for-each over negative int is not supported")
              ELSE Step(WithTop([fr EXCEPT !.pc = 2, !.acc = foreach_items(rv)]),
                        rv, push_env(env_stack, next_id), next_id + 1)
         [] fr.pc = 2 ->
              IF fr.i <= Len(fr.acc)
              THEN LET env == define_var(env_stack, fr.node.var_name, fr.acc[fr.i]) IN
                   Step(CallK([fr EXCEPT !.pc = 3], Act("exec_block", fr.node.body, env)),
                        rv, env, next_id)
              ELSE Step(RetK, None, pop_env(env_stack), next_id)
         [] fr.pc = 3 ->
              IF rv # None THEN Step(RetK, rv, pop_env(env_stack), next_id)
              ELSE Invoke([fr EXCEPT !.pc = 4], "eval_expr", fr.node.iter_expr)
         [] fr.pc = 4 ->
              IF rv.tag \notin {"Int", "Str", "List"}
              THEN Panic("for-each can iterate only over int, string or list")
              ELSE IF rv.tag = "Int" /\ rv.v < 0
              THEN Panic("for-each over negative int is not supported")
              ELSE Goto([fr EXCEPT !.pc = 2, !.i = fr.i + 1, !.acc = foreach_items(rv)])

ExecForEach ==
    /\ InStmt("ForEach")
    /\ LET fr == Top IN
       CASE fr.pc = 0 -> Invoke([fr EXCEPT !.pc = 1], "eval_expr", fr.node.iter_expr)
         [] fr.pc = 1 ->
              IF rv.tag \notin {"Int", "Str", "List"}
              THEN Panic("for-each can iterate only over int, string or list")
              ELSE IF rv.tag = "Int" /\ rv.v < 0
              THEN Panic("for-each over negative int is not supported")
              ELSE Step(WithTop([fr EXCEPT !.pc = 2, !.acc = foreach_items(rv)]),
                        rv, push_env(env_stack, next_id), next_id + 1)
         [] fr.pc = 2 ->
              IF fr.i <= Len(fr.acc)
              THEN LET env == define_var(env_stack, fr.node.var_name, fr.acc[fr.i]) IN
                   Step(CallK([fr EXCEPT !.pc = 3], Act("exec_block", fr.node.body, env)),
                        rv, env, next_id)
              ELSE Step(RetK, None, pop_env(env_stack), next_id)
         [] fr.pc = 3 ->
              IF rv # None THEN Step(RetK, rv, pop_env(env_stack), next_id)
              ELSE Goto([fr EXCEPT !.pc = 2, !.i = fr.i + 1])

(***************************************************************************)
(* Interpreter::exec_block                                                 *)
(***************************************************************************)
\* `if let Some(v) = self.exec_stmt(s) { ret = Some(v); break; }`: pc 3 is
\* the place after the loop.
exec_block_loop(fr, r) ==
    IF r # None THEN [fr EXCEPT !.ret = r, !.pc = 3]
    ELSE [fr EXCEPT !.i = fr.i + 1, !.pc = 1]

\* exec_block as it would be with `return Some(v)` in place of the `break`:
\* the pop_env after the loop is skipped.
ExecBlockFrom_early_return(fr) ==
    IF fr.pc = 3 THEN Step(RetK, fr.ret, env_stack, next_id)
    ELSE IF fr.i <= Len(fr.node)
    THEN Invoke([fr EXCEPT !.pc = 2], "exec_stmt", fr.node[fr.i])
    ELSE Step(RetK, fr.ret, pop_env(env_stack), next_id)

\* The loop goes on with statement fr.i, or is over: pop_env and return ret.
ExecBlockFrom(fr) ==
    IF fr.pc # 3 /\ fr.i <= Len(fr.node)
    THEN Invoke([fr EXCEPT !.pc = 2], "exec_stmt", fr.node[fr.i])
    ELSE Step(RetK, fr.ret, pop_env(env_stack), next_id)

ExecBlock ==
    /\ Running /\ Top.fn = "exec_block"
    /\ LET fr == Top IN
       CASE fr.pc = 0 ->
              Step(WithTop([fr EXCEPT !.pc = 1]), rv, push_env(env_stack, next_id), next_id + 1)
         [] fr.pc = 1 -> ExecBlockFrom(fr)
         [] fr.pc = 2 -> ExecBlockFrom(exec_block_loop(fr, rv))

(***************************************************************************)
(* Interpreter::eval_expr, one action per arm                              *)
(***************************************************************************)
EvalLiteral ==
    /\ InExpr({"Int", "Bool", "Str"})
    /\ LET e == Top.node IN
       CASE e.k = "Int" -> Return(VInt(e.n))
         [] e.k = "Bool" -> Return(VBool(e.b))
         [] e.k = "Str" -> Return(VStr(e.s))

EvalVar ==
    /\ InExpr({"Var"})
    /\ IF get_var(env_stack, Top.node.name) = None THEN Panic("Undefined variable")
       ELSE Return(get_var(env_stack, Top.node.name)[1])

\* The Binary arm as it would be if `==` on operands of two different tags
\* were false instead of a type error.
EvalBinary_mixed_eq ==
    /\ InExpr({"Binary"})
    /\ LET fr == Top IN
       CASE fr.pc = 0 -> Invoke([fr EXCEPT !.pc = 1], "eval_expr", fr.node.left)
         [] fr.pc = 1 -> Invoke([fr EXCEPT !.pc = 2, !.acc = <<rv>>], "eval_expr", fr.node.right)
         [] fr.pc = 2 ->
              IF fr.node.op = "Eq" /\ fr.acc[1].tag # rv.tag THEN Return(VBool(FALSE))
              ELSE LET r == eval_bin(fr.acc[1], fr.node.op, rv) IN
                   IF r.t = "panic" THEN Panic(r.msg) ELSE Return(r.v)

EvalBinary ==
    /\ InExpr({"Binary"})
    /\ LET fr == Top IN
       CASE fr.pc = 0 -> Invoke([fr EXCEPT !.pc = 1], "eval_expr", fr.node.left)
         [] fr.pc = 1 -> Invoke([fr EXCEPT !.pc = 2, !.acc = <<rv>>], "eval_expr", fr.node.right)
         [] fr.pc = 2 ->
              LET r == eval_bin(fr.acc[1], fr.node.op, rv) IN
              IF r.t = "panic" THEN Panic(r.msg) ELSE Return(r.v)

EvalListLiteral ==
    /\ InExpr({"ListLiteral"})
    /\ LET fr == Top IN
       CASE fr.pc = 0 /\ fr.i <= Len(fr.node.items) ->
              Invoke([fr EXCEPT !.pc = 1], "eval_expr", fr.node.items[fr.i])
         [] fr.pc = 1 -> Goto([fr EXCEPT !.pc = 0, !.i = fr.i + 1, !.acc = Append(fr.acc, rv)])
         [] fr.pc = 0 /\ fr.i > Len(fr.node.items) -> Return(VList(fr.acc))

EvalCallExpr ==
    /\ InExpr({"Call"})
    /\ LET fr == Top IN
       CASE fr.pc = 0 -> Invoke([fr EXCEPT !.pc = 1], "eval_call", fr.node)
         [] fr.pc = 1 -> Return(rv)

(***************************************************************************)
(* Interpreter::eval_call and Interpreter::call_function                   *)
(***************************************************************************)
\* The order in which eval_call resolves a callee: the builtin registry,
\* then the table of user functions, then the panic.
\* eval_call as it would be with the user functions looked up first.
resolve_call_user_first(callee, args, fns) ==
    IF callee \in DOMAIN fns THEN [t |-> "user", f |-> fns[callee]]
    ELSE IF call_builtin(callee, args).t # "none"
    THEN [t |-> "builtin", r |-> call_builtin(callee, args)]
    ELSE [t |-> "unknown"]

resolve_call(callee, args, fns) ==
    LET b == call_builtin(callee, args) IN
    IF b.t # "none" THEN [t |-> "builtin", r |-> b]
    ELSE IF callee \in DOMAIN fns THEN [t |-> "user", f |-> fns[callee]]
    ELSE [t |-> "unknown"]

EvalCall ==
    /\ Running /\ Top.fn = "eval_call"
    /\ LET fr == Top
           res == resolve_call(fr.node.callee, fr.acc, functions)
       IN
       CASE fr.pc = 0 /\ fr.i <= Len(fr.node.args) ->
              Invoke([fr EXCEPT !.pc = 1], "eval_expr", fr.node.args[fr.i])
         [] fr.pc = 1 -> Goto([fr EXCEPT !.pc = 0, !.i = fr.i + 1, !.acc = Append(fr.acc, rv)])
         [] fr.pc = 0 /\ fr.i > Len(fr.node.args) ->
              IF res.t = "builtin" /\ res.r.t = "some"
              THEN /\ kont' = RetK
                   /\ rv' = res.r.v
                   /\ output' = output \o res.r.out
                   /\ UNCHANGED <<finished, input, pos, current_token, program, env_stack, functions, status, err, next_id>>
              ELSE IF res.t = "builtin" THEN Panic(res.r.msg)
              ELSE IF res.t = "user"
              THEN Step(CallK([fr EXCEPT !.pc = 2],
                              [Act("call_function", res.f, env_stack) EXCEPT !.acc = fr.acc]),
                        rv, env_stack, next_id)
              ELSE Panic("Unknown function")
         [] fr.pc = 2 -> Return(rv)

\* The argument count check as it would be with `>` in place of `!=`.
arity_mismatch_too_few(func, args) == Len(func.params) > Len(args)

\* `func.params.len() != args.len()`
arity_mismatch(func, args) == Len(func.params) # Len(args)

\* The `locals` map: the parameters inserted in order, each with the
\* argument zipped to it.
RECURSIVE bind_params(_, _, _)
bind_params(params, args, locals) ==
    IF params = <<>> THEN locals
    ELSE bind_params(Tail(params), Tail(args), MapInsert(locals, Head(params)[1], Head(args)))

\* `if let Some(v) = self.exec_stmt(stmt) { ret = v; break; }`: pc 3 is the
\* place after the loop.
call_function_loop(fr, r) ==
    IF r # None THEN [fr EXCEPT !.ret = r[1], !.pc = 3]
    ELSE [fr EXCEPT !.i = fr.i + 1, !.pc = 1]

\* The loop goes on with statement fr.i, or is over: pop_env and return ret.
CallFunctionFrom(fr) ==
    IF fr.pc # 3 /\ fr.i <= Len(fr.node.body)
    THEN Invoke([fr EXCEPT !.pc = 2], "exec_stmt", fr.node.body[fr.i])
    ELSE Step(RetK, fr.ret, pop_env(env_stack), next_id)

CallFunction ==
    /\ Running /\ Top.fn = "call_function"
    /\ LET fr == Top
           func == fr.node
       IN
       CASE fr.pc = 0 ->
              IF arity_mismatch(func, fr.acc) THEN Panic("function expected arguments")
              ELSE Step(WithTop([fr EXCEPT !.pc = 1, !.ret = VUnit]), rv,
                        Append(env_stack, Frame(next_id, bind_params(func.params, fr.acc, EmptyMap))),
                        next_id + 1)
         [] fr.pc = 1 -> CallFunctionFrom(fr)
         [] fr.pc = 2 -> CallFunctionFrom(call_function_loop(fr, rv))

(***************************************************************************)
(* The programs checked: syntax trees as parse_program builds them, in     *)
(* families whose open places range over small sets.                       *)
(***************************************************************************)
T == EBool(TRUE)
F == EBool(FALSE)
Txt_ab == <<"a", "b">>
SPrint(args) == SExprStmt(ECall("print", args))
Inc(name) == SAssign(name, EBinary(EVar(name), "Add", EInt(1)))
If(cond, then_branch) == SBranch(cond, then_branch, <<>>, <<>>)
Lits == 0..MaxLit

\* Declarations and assignments at three depths of nested blocks.
ScopeFirst == {SVarDecl("x", "int", EInt(0)), SVarDecl("y", "int", EInt(0))}
ScopePool ==
    {SVarDecl("x", "int", EInt(l)) : l \in 1..MaxLit}
    \cup {SAssign("x", EInt(10 + l)) : l \in 1..MaxLit}
    \cup {SAssign("y", EInt(20 + l)) : l \in 1..MaxLit}
ScopePrograms ==
    {Program(<<>>,
        <<s1,
          If(T, <<s2,
                  If(T, <<s3, SPrint(<<EVar("x")>>)>>),
                  s4,
                  SPrint(<<EVar("x")>>)>>),
          SPrint(<<EVar("x")>>),
          SPrint(<<EVar("y")>>)>>) :
        s1 \in ScopeFirst, s2 \in ScopePool, s3 \in ScopePool, s4 \in ScopePool}

\* One declaration, every declared type against every kind of initializer.
Noop == Function("noop", <<>>, <<>>)
InitExprs ==
    {EInt(l) : l \in Lits}
    \cup {T, F, EStr(Txt_ab), EStr(<<>>), EListLiteral(<<>>), EListLiteral(<<EInt(0), T>>),
          ECall("print", <<>>), ECall("noop", <<>>)}
DeclPrograms ==
    {Program(<<Noop>>, <<SVarDecl("x", ty, e), SPrint(<<EVar("x")>>)>>) :
        ty \in Type, e \in InitExprs}

\* Calls of user functions, builtins and unknown names with 0..2 arguments.
Lib ==
    <<Function("add", <<<<"a", "int">>, <<"b", "int">>>>,
               <<SReturn(Some(EBinary(EVar("a"), "Add", EVar("b"))))>>),
      Function("dup", <<<<"a", "int">>, <<"a", "int">>>>, <<SReturn(Some(EVar("a")))>>),
      Function("first", <<>>,
               <<SReturn(Some(EInt(1))), SAssign("g", EInt(1)), SReturn(Some(EInt(2)))>>),
      Function("noret", <<>>, <<SAssign("g", EInt(1))>>),
      Function("bare", <<>>, <<SReturn(None), SAssign("g", EInt(1))>>),
      Function("len", <<<<"x", "str">>>>, <<SAssign("g", EInt(1)), SReturn(Some(EInt(9)))>>),
      Function("print", <<<<"x", "int">>>>, <<SAssign("g", EInt(1))>>),
      Function("id", <<<<"a", "int">>>>, <<SReturn(Some(EVar("a")))>>)>>
Callees == {"add", "dup", "first", "noret", "bare", "len", "id", "nosuch", "range"}
ArgExprs == {EInt(l) : l \in Lits} \cup {EStr(Txt_ab)}
ArgLists ==
    {<<>>} \cup {<<a>> : a \in ArgExprs} \cup {<<a, b>> : a \in ArgExprs, b \in ArgExprs}
CallPrograms ==
    {Program(Lib,
        <<SVarDecl("g", "int", EInt(0)),
          SPrint(<<ECall(f, args)>>),
          SPrint(<<EVar("g")>>)>>) :
        f \in Callees, args \in ArgLists}

\* `add(2, 3)` for `func add(a: int, b: int) { return a + b }`.
AddProgram ==
    Program(Lib,
        <<SVarDecl("g", "int", EInt(0)),
          SPrint(<<ECall("add", <<EInt(2), EInt(3)>>)>>),
          SPrint(<<EVar("g")>>)>>)

\* A `return` inside two nested constructs of a function body.
WrapKinds ==
    {"if", "else", "elif", "while", "for", "forever", "foreach_int", "foreach_str",
     "foreach_list", "for_init", "for_step"}
Below(name) == EBinary(EVar(name), "Lt", EInt(MaxIter))
Wrap(w, s) ==
    CASE w = "if" -> If(T, <<s>>)
      [] w = "else" -> SBranch(F, <<>>, <<>>, <<s>>)
      [] w = "elif" -> SBranch(F, <<>>, <<SElseIfBranch(T, <<s>>)>>, <<>>)
      [] w = "while" -> SWhile(Below("c"), <<Inc("c"), s>>)
      [] w = "for" ->
           SFor(Some(SVarDecl("k", "int", EInt(0))), Some(Below("k")), Some(Inc("k")), <<s>>)
      [] w = "forever" -> SFor(None, None, None, <<s, SReturn(Some(EInt(8)))>>)
      [] w = "foreach_int" -> SForEach("e", EInt(MaxIter), <<s>>)
      [] w = "foreach_str" -> SForEach("e", EStr(Txt_ab), <<s>>)
      [] w = "foreach_list" -> SForEach("e", EListLiteral(<<EInt(1), EInt(2)>>), <<s>>)
      [] w = "for_init" -> SFor(Some(s), Some(F), None, <<>>)
      [] w = "for_step" -> SFor(None, Some(Below("c")), Some(s), <<Inc("c")>>)
ReturnLeaves ==
    {SReturn(Some(EInt(7))),
     SReturn(None),
     If(EBinary(EVar("c"), "Eq", EInt(1)), <<SReturn(Some(EVar("c")))>>)}
\* parse_return_stmt reads a bare `return` only before a newline or `}`: as
\* the init or step clause of a `for` a `return` carries an expression.
InClause(w) == w \in {"for_init", "for_step"}
AsClause(s) == s.k = "Return" => s.expr_opt # None
ReturnCases ==
    {c \in WrapKinds \X WrapKinds \X ReturnLeaves : InClause(c[2]) => AsClause(c[3])}
ReturnPrograms ==
    {Program(<<Function("f", <<>>,
                  <<SVarDecl("c", "int", EInt(0)),
                    Wrap(c[1], Wrap(c[2], c[3])),
                    SAssign("g", EInt(1)),
                    SReturn(Some(EInt(9)))>>)>>,
        <<SVarDecl("g", "int", EInt(0)),
          SPrint(<<ECall("f", <<>>)>>),
          SPrint(<<EVar("g")>>)>>) : c \in ReturnCases}

\* A function that reads or assigns `x`, called through 0..MaxCallDepth
\* intermediate calls from a place where `x` is bound in some frame.
LeafBodies ==
    {<<SReturn(Some(EVar("x")))>>,
     <<SAssign("x", EInt(5)), SReturn(Some(EVar("x")))>>}
Rec ==
    Function("rec", <<<<"n", "int">>>>,
        <<If(EBinary(EVar("n"), "Eq", EInt(0)), <<SReturn(Some(ECall("leaf", <<>>)))>>),
          SReturn(Some(ECall("rec", <<EBinary(EVar("n"), "Sub", EInt(1))>>)))>>)
CallRec(d) == ECall("rec", <<EInt(d)>>)
Contexts == {"local", "block", "loop", "param", "top_block", "global", "unbound"}
ContextProgram(ctx, d, fs) ==
    CASE ctx = "local" ->
           Program(fs \o <<Function("caller", <<>>,
                              <<SVarDecl("x", "int", EInt(1)), SReturn(Some(CallRec(d)))>>)>>,
                   <<SPrint(<<ECall("caller", <<>>)>>)>>)
      [] ctx = "block" ->
           Program(fs \o <<Function("caller", <<>>,
                              <<If(T, <<SVarDecl("x", "int", EInt(1)),
                                        SReturn(Some(CallRec(d)))>>)>>)>>,
                   <<SPrint(<<ECall("caller", <<>>)>>)>>)
      [] ctx = "loop" ->
           Program(fs \o <<Function("caller", <<>>,
                              <<SForEach("x", EInt(1), <<SReturn(Some(CallRec(d)))>>)>>)>>,
                   <<SPrint(<<ECall("caller", <<>>)>>)>>)
      [] ctx = "param" ->
           Program(fs \o <<Function("caller", <<<<"x", "int">>>>,
                              <<SReturn(Some(CallRec(d)))>>)>>,
                   <<SPrint(<<ECall("caller", <<EInt(1)>>)>>)>>)
      [] ctx = "top_block" ->
           Program(fs, <<If(T, <<SVarDecl("x", "int", EInt(1)), SPrint(<<CallRec(d)>>)>>)>>)
      [] ctx = "global" ->
           Program(fs, <<SVarDecl("x", "int", EInt(1)), SPrint(<<CallRec(d)>>),
                         SPrint(<<EVar("x")>>)>>)
      [] ctx = "unbound" ->
           Program(fs, <<SPrint(<<CallRec(d)>>)>>)
CalleePrograms ==
    {ContextProgram(ctx, d, <<Function("leaf", <<>>, body), Rec>>) :
        ctx \in Contexts, d \in 0..MaxCallDepth, body \in LeafBodies}

\* A declared variable assigned a value of every kind: `var x: int = 5`,
\* `x = "a"`, and the same for every declared type and initializer.
InitOf(ty) ==
    CASE ty = "int" -> EInt(5)
      [] ty = "bool" -> T
      [] ty = "str" -> EStr(Txt_ab)
      [] ty = "list" -> EListLiteral(<<>>)
AssignPrograms ==
    {Program(<<Noop>>,
        <<SVarDecl("x", ty, InitOf(ty)), SAssign("x", e), SPrint(<<EVar("x")>>)>>) :
        ty \in Type, e \in InitExprs \cup {EStr(<<"a">>)}}

\* A while loop over a counter c, with conditions of every kind of value and
\* bodies that declare d; `tick` prints c each time the condition is
\* evaluated.
Tick ==
    Function("tick", <<>>, <<SPrint(<<EVar("c")>>), SReturn(Some(Below("c")))>>)
WhileConds ==
    {Below("c"), F, EVar("c"), EStr(Txt_ab), EListLiteral(<<>>), ECall("print", <<>>),
     ECall("tick", <<>>)}
DeclBody == <<SVarDecl("d", "int", EVar("c")), Inc("c")>>
WhileBodies ==
    {DeclBody,
     <<If(EBinary(EVar("c"), "Eq", EInt(1)), <<SPrint(<<EVar("d")>>)>>)>> \o DeclBody}
WhileProgram(cond, body) ==
    Program(<<Tick>>,
        <<SVarDecl("c", "int", EInt(0)), SWhile(cond, body), SPrint(<<EVar("c")>>)>>)
WhilePrograms == {WhileProgram(cond, body) : cond \in WhileConds, body \in WhileBodies}

\* A C-style for over k inside a function, every clause present or absent:
\* the body prints k and returns when k reaches MaxIter.
ForInits == {None, Some(SVarDecl("k", "int", EInt(0))), Some(SAssign("k", EInt(0)))}
ForConds == {None, Some(Below("k")), Some(F), Some(EVar("k")), Some(EStr(Txt_ab))}
ForSteps ==
    {None, Some(Inc("k")),
     Some(SVarDecl("k", "int", EBinary(EVar("k"), "Add", EInt(1))))}
ForBody(step) ==
    <<SPrint(<<EVar("k")>>),
      If(EBinary(EVar("k"), "Eq", EInt(MaxIter)), <<SReturn(Some(EVar("k")))>>)>>
    \o (IF step = None THEN <<Inc("k")>> ELSE <<>>)
ForProgram(init, cond, step) ==
    Program(<<Function("f", <<>>,
                  <<SVarDecl("k", "int", EInt(0)),
                    SFor(init, cond, step, ForBody(step)),
                    SReturn(Some(EInt(9)))>>)>>,
        <<SPrint(<<ECall("f", <<>>)>>)>>)
ForPrograms ==
    {ForProgram(init, cond, step) : init \in ForInits, cond \in ForConds, step \in ForSteps}

\* `for i in n { print(i) }` for n from -2 to MaxIter + 1 (a negative n is
\* written 0 - m), also with a body that assigns i; then `print("end")`.
EachInts == (0 - 2)..(MaxIter + 1)
IntExpr(n) ==
    IF n = IntMin THEN EBinary(EBinary(EInt(0), "Sub", EInt(IntMax)), "Sub", EInt(1))
    ELSE IF n < 0 THEN EBinary(EInt(0), "Sub", EInt(0 - n))
    ELSE EInt(n)
Txt_end == <<"e", "n", "d">>
EachBodies == {<<SPrint(<<EVar("i")>>)>>, <<SPrint(<<EVar("i")>>), SAssign("i", EInt(7))>>}
EachIntProgram(n, body) ==
    Program(<<>>, <<SForEach("i", IntExpr(n), body), SPrint(<<EStr(Txt_end)>>)>>)
EachIntPrograms == {EachIntProgram(n, body) : n \in EachInts, body \in EachBodies}

\* `var xs: list = [...]`, `for x in xs { print(x) ... }` or the same over
\* `mk()`, which prints "e" and returns the list; the body may also assign x or
\* xs; then `print(xs)` and `print(x)`.
EachLists == {<<>>, <<1>>, <<1, 2>>}
EachSources == {"var", "call"}
EachListBodies == {"plain", "bound", "source", "both"}
ListExpr(l) == EListLiteral([j \in 1..Len(l) |-> EInt(l[j])])
EachListBody(b) ==
    CASE b = "plain" -> <<SPrint(<<EVar("x")>>)>>
      [] b = "bound" -> <<SPrint(<<EVar("x")>>), SAssign("x", EInt(7))>>
      [] b = "source" -> <<SPrint(<<EVar("x")>>), SAssign("xs", EListLiteral(<<>>))>>
      [] b = "both" -> <<SPrint(<<EVar("x")>>), SAssign("x", EInt(7)),
                         SAssign("xs", ECall("push", <<EVar("xs"), EInt(9)>>))>>
EachListProgram(l, src, b) ==
    Program(<<Function("mk", <<>>, <<SPrint(<<EStr(<<"e">>)>>), SReturn(Some(ListExpr(l)))>>)>>,
            <<SVarDecl("xs", "list", ListExpr(l)),
              SForEach("x", IF src = "var" THEN EVar("xs") ELSE ECall("mk", <<>>),
                       EachListBody(b)),
              SPrint(<<EVar("xs")>>),
              SPrint(<<EVar("x")>>)>>)
EachListPrograms ==
    {EachListProgram(l, src, b) : l \in EachLists, src \in EachSources, b \in EachListBodies}

\* `print(range(n))` and `print(range(a, b))` for bounds of both signs.
RangeInts == {0 - 1, 0, 2, 5}
RangeArgs == {<<n>> : n \in RangeInts} \cup (RangeInts \X RangeInts)
RangeProgram(bounds) ==
    Program(<<>>, <<SPrint(<<ECall("range", [j \in 1..Len(bounds) |-> IntExpr(bounds[j])])>>)>>)
RangePrograms == {RangeProgram(bounds) : bounds \in RangeArgs}

\* `print(a / b)` for dividends and divisors of both signs, zero and the
\* ends of the range (the least integer is written 0 - IntMax - 1).
Dividends == {IntMin, 0 - 7, 0 - 1, 0, 1, 7, IntMax}
Divisors == {IntMin, 0 - 2, 0 - 1, 0, 1, 2, IntMax}
DivProgram(a, b) ==
    Program(<<>>, <<SPrint(<<EBinary(IntExpr(a), "Div", IntExpr(b))>>)>>)
DivPrograms == {DivProgram(a, b) : a \in Dividends, b \in Divisors}

\* `print(a op b)` for the four order operators and two string literals:
\* "", "a", "ab", "ba", "abc" and two with the letter U+044F.
Texts ==
    {<<>>, <<"a">>, Txt_ab, <<"b", "a">>, <<"a", "b", "c">>, <<"u044f">>,
     <<"u044f", "u044f">>}
OrderOps == {"Lt", "LtEq", "Gt", "GtEq"}
StrCmpProgram(a, op, b) ==
    Program(<<>>, <<SPrint(<<EBinary(EStr(a), op, EStr(b))>>)>>)
StrCmpPrograms == {StrCmpProgram(a, op, b) : a \in Texts, op \in OrderOps, b \in Texts}

\* `print(a op b)` for every operator and operands of every kind of value
\* (noop() is Unit).
Operands ==
    {EInt(0), EInt(1), T, F, EStr(<<"a">>), EStr(Txt_ab), EListLiteral(<<>>),
     ECall("noop", <<>>)}
OpProgram(a, op, b) == Program(<<Noop>>, <<SPrint(<<EBinary(a, op, b)>>)>>)
OpPrograms == {OpProgram(a, op, b) : a \in Operands, op \in BinOp, b \in Operands}

\* if / elif / else with conditions of every kind of value, then a print.
Txt(c) == EStr(<<c>>)
BranchConds == {T, F, EInt(1), EStr(Txt_ab), EListLiteral(<<>>), ECall("noop", <<>>)}
BranchProgram(c1, c2) ==
    Program(<<Noop>>,
        <<SBranch(c1, <<SPrint(<<Txt("t")>>)>>,
                  <<SElseIfBranch(c2, <<SPrint(<<Txt("i")>>)>>)>>,
                  <<SPrint(<<Txt("e")>>)>>),
          SPrint(<<Txt("n")>>)>>)
BranchPrograms == {BranchProgram(c1, c2) : c1 \in BranchConds, c2 \in BranchConds}

\* A `return` at top level: `var c: int = 0`, then the return alone, or in a
\* block of a branch or a loop between `print("a")` and `print("b")`, or as
\* the init or step clause of a `for`; then `print("n")` and `print(c)`.
TopKinds ==
    {"direct", "if", "else", "elif", "while", "for", "foreach_int", "foreach_list",
     "for_init", "for_step"}
Around(s) == <<SPrint(<<Txt("a")>>), s, SPrint(<<Txt("b")>>)>>
TopWrap(w, s) ==
    CASE w = "direct" -> s
      [] w = "if" -> If(T, Around(s))
      [] w = "else" -> SBranch(F, <<>>, <<>>, Around(s))
      [] w = "elif" -> SBranch(F, <<>>, <<SElseIfBranch(T, Around(s))>>, <<>>)
      [] w = "while" -> SWhile(Below("c"), <<Inc("c")>> \o Around(s))
      [] w = "for" ->
           SFor(Some(SVarDecl("k", "int", EInt(0))), Some(Below("k")), Some(Inc("k")),
                Around(s))
      [] w = "foreach_int" -> SForEach("e", EInt(MaxIter), Around(s))
      [] w = "foreach_list" -> SForEach("e", EListLiteral(<<EInt(1), EInt(2)>>), Around(s))
      [] w = "for_init" ->
           SFor(Some(s), Some(EBinary(EVar("c"), "Lt", EInt(1))), Some(Inc("c")),
                <<SPrint(<<Txt("a")>>)>>)
      [] w = "for_step" ->
           SFor(None, Some(Below("c")), Some(s), <<Inc("c"), SPrint(<<Txt("a")>>)>>)
TopLeaves ==
    {SReturn(Some(EInt(7))), SReturn(None), If(T, <<SReturn(Some(EInt(7)))>>)}
TopCases == {c \in TopKinds \X TopLeaves : InClause(c[1]) => AsClause(c[2])}
TopReturnProgram(w, s) ==
    Program(<<>>,
        <<SVarDecl("c", "int", EInt(0)),
          TopWrap(w, s),
          SPrint(<<Txt("n")>>),
          SPrint(<<EVar("c")>>)>>)
TopReturnPrograms == {TopReturnProgram(c[1], c[2]) : c \in TopCases}

Programs ==
    ScopePrograms \cup DeclPrograms \cup CallPrograms \cup {AddProgram}
    \cup ReturnPrograms \cup CalleePrograms \cup AssignPrograms
    \cup WhilePrograms \cup ForPrograms \cup EachIntPrograms
    \cup DivPrograms \cup StrCmpPrograms \cup OpPrograms \cup BranchPrograms
    \cup RangePrograms \cup EachListPrograms \cup TopReturnPrograms

(***************************************************************************)
(* lexer.rs: Token and Lexer.  A character is a string of length one; an   *)
(* identifier's text is named by the string that Spelling spells with it.  *)
(* A scanning function yields Scanned(tok, p), the token and the position  *)
(* after it, or LexPanic(msg) where the code panics.                       *)
(***************************************************************************)
Tok(k) == [k |-> k]
TInt(n) == [k |-> "IntLiteral", n |-> n]
TStr(s) == [k |-> "StrLiteral", s |-> s]
TIdent(name) == [k |-> "Ident", name |-> name]

Scanned(tok, p) == [ok |-> TRUE, tok |-> tok, pos |-> p]
LexPanic(msg) == [ok |-> FALSE, msg |-> msg]

Lower ==
    {"a", "b", "c", "d", "e", "f", "g", "h", "i", "j", "k", "l", "m", "n", "o", "p", "q",
     "r", "s", "t", "u", "v", "w", "x", "y", "z"}
Upper ==
    {"A", "B", "C", "D", "E", "F", "G", "H", "I", "J", "K", "L", "M", "N", "O", "P", "Q",
     "R", "S", "T", "U", "V", "W", "X", "Y", "Z"}

\* The words of the sources, each with its characters.
Spelling ==
    [var |-> <<"v", "a", "r">>, mut |-> <<"m", "u", "t">>, func |-> <<"f", "u", "n", "c">>,
     return |-> <<"r", "e", "t", "u", "r", "n">>, if |-> <<"i", "f">>,
     elif |-> <<"e", "l", "i", "f">>, else |-> <<"e", "l", "s", "e">>,
     while |-> <<"w", "h", "i", "l", "e">>, for |-> <<"f", "o", "r">>, in |-> <<"i", "n">>,
     true |-> <<"t", "r", "u", "e">>, false |-> <<"f", "a", "l", "s", "e">>,
     print |-> <<"p", "r", "i", "n", "t">>, x |-> <<"x">>, y |-> <<"y">>,
     int |-> <<"i", "n", "t">>, If |-> <<"I", "f">>, iff |-> <<"i", "f", "f">>,
     i |-> <<"i">>, vars |-> <<"v", "a", "r", "s">>, underscore |-> <<"_">>,
     x1 |-> <<"x", "1">>, in_ |-> <<"i", "n", "_">>, True |-> <<"T", "r", "u", "e">>,
     underscore_for |-> <<"_", "f", "o", "r">>, a |-> <<"a">>, b |-> <<"b">>]

\* The String of the characters s.
Word(s) ==
    IF \E w \in DOMAIN Spelling : Spelling[w] = s
    THEN CHOOSE w \in DOMAIN Spelling : Spelling[w] = s
    ELSE s

\* The match of lex_ident_or_keyword as it would be without its "mut" arm.
KeywordToken_without_mut ==
    [var |-> "Kwvar", func |-> "KwFunc", return |-> "KwReturn", if |-> "KwIf",
     elif |-> "KwElseIf", else |-> "KwElse", while |-> "KwWhile", for |-> "KwFor",
     in |-> "KwIn", true |-> "KwTrue", false |-> "KwFalse"]

\* The match of lex_ident_or_keyword.
KeywordToken ==
    [var |-> "Kwvar", mut |-> "KwMut", func |-> "KwFunc", return |-> "KwReturn", if |-> "KwIf",
     elif |-> "KwElseIf", else |-> "KwElse", while |-> "KwWhile", for |-> "KwFor",
     in |-> "KwIn", true |-> "KwTrue", false |-> "KwFalse"]

\* Lexer::peek at position p
peek(p) == IF p < Len(input) THEN Some(input[p + 1]) ELSE None

RECURSIVE skip_spaces(_)
skip_spaces(p) ==
    IF peek(p) # None /\ peek(p)[1] \in {" ", "\t"} THEN skip_spaces(p + 1) ELSE p

\* The loop of lex_number and of lex_ident_or_keyword: the characters of
\* `class` from p on are pushed on s.
RECURSIVE lex_while(_, _, _)
lex_while(class, s, p) ==
    IF peek(p) # None /\ peek(p)[1] \in class
    THEN lex_while(class, Append(s, peek(p)[1]), p + 1)
    ELSE [s |-> s, pos |-> p]

\* The first digit is read; p is the position after it.
lex_number(first_digit, p) ==
    LET r == lex_while(Digits, <<first_digit>>, p)
        value == ParseInt(r.s) IN
    IF value = None \/ value[1] > IntMax
    THEN LexPanic("called Result::unwrap() on an Err value")
    ELSE Scanned(TInt(value[1]), r.pos)

lex_ident_or_keyword(first_char, p) ==
    LET r == lex_while(Lower \cup Upper \cup Digits \cup {"_"}, <<first_char>>, p)
        w == Word(r.s) IN
    IF w \in DOMAIN KeywordToken THEN Scanned(Tok(KeywordToken[w]), r.pos)
    ELSE Scanned(TIdent(w), r.pos)

\* The opening quote is read; the loop ends at the closing quote and when
\* advance() yields None.
RECURSIVE lex_string_loop(_, _)
lex_string_loop(s, p) ==
    IF peek(p) = None THEN Scanned(TStr(s), p)
    ELSE LET ch == peek(p)[1] IN
         IF ch = "\"" THEN Scanned(TStr(s), p + 1)
         ELSE IF ch = "\n" THEN LexPanic("String literal not closed before newline")
         ELSE lex_string_loop(Append(s, ch), p + 1)

lex_string(p) == lex_string_loop(<<>>, p)

OneCharToken ==
    [c \in {"+", "-", "*", "/", "%", "{", "}", "(", ")", "[", "]", ":", ";", ","} |->
        CASE c = "+" -> "Plus" [] c = "-" -> "Minus" [] c = "*" -> "Star" [] c = "/" -> "Slash"
          [] c = "%" -> "Percent" [] c = "{" -> "LBrace" [] c = "}" -> "RBrace"
          [] c = "(" -> "LParen" [] c = ")" -> "RParen" [] c = "[" -> "LBracket"
          [] c = "]" -> "RBracket" [] c = ":" -> "Colon" [] c = ";" -> "Semi"
          [] c = "," -> "Comma"]

\* Lexer::next_token from position p0
next_token(p0) ==
    LET p == skip_spaces(p0) IN
    IF peek(p) = None THEN Scanned(Tok("EOF"), p)
    ELSE LET ch == peek(p)[1]
             q == p + 1
             eq == peek(q) = Some("=") IN
         IF ch = "\n" THEN Scanned(Tok("Newline"), q)
         ELSE IF ch \in Digits THEN lex_number(ch, q)
         ELSE IF ch \in Lower \cup Upper \cup {"_"} THEN lex_ident_or_keyword(ch, q)
         ELSE IF ch = "\"" THEN lex_string(q)
         ELSE IF ch \in DOMAIN OneCharToken THEN Scanned(Tok(OneCharToken[ch]), q)
         ELSE IF ch = "=" THEN (IF eq THEN Scanned(Tok("EqEq"), q + 1) ELSE Scanned(Tok("Eq"), q))
         ELSE IF ch = "!"
              THEN (IF eq THEN Scanned(Tok("NotEq"), q + 1)
                    ELSE LexPanic("Unexpected '!' without '='"))
         ELSE IF ch = "<" THEN (IF eq THEN Scanned(Tok("LtEq"), q + 1) ELSE Scanned(Tok("Lt"), q))
         ELSE IF ch = ">" THEN (IF eq THEN Scanned(Tok("GtEq"), q + 1) ELSE Scanned(Tok("Gt"), q))
         ELSE LexPanic("Unexpected character")

(***************************************************************************)
(* A client of the Lexer: it calls next_token() again and again, at the    *)
(* end of the input too.  Its activation counts the calls in `i` and keeps *)
(* the tokens returned in `acc`; `rv` is the token returned last.          *)
(***************************************************************************)
\* Lexer::advance as it would be if it moved the position at the end of the
\* input too.
NextToken_moves_at_end ==
    /\ status = "scanning" /\ Top.i <= MaxScan
    /\ LET r == next_token(pos) IN
       IF r.ok
       THEN /\ pos' = IF r.tok.k = "EOF" THEN r.pos + 1 ELSE r.pos
            /\ rv' = r.tok
            /\ kont' = WithTop([Top EXCEPT !.i = @ + 1, !.acc = Append(@, r.tok)])
            /\ UNCHANGED <<finished, input, current_token, program, env_stack, functions, status, err,
                           output, next_id>>
       ELSE /\ status' = "panic"
            /\ err' = r.msg
            /\ UNCHANGED <<finished, input, pos, current_token, program, env_stack, functions, kont, rv,
                           output, next_id>>

NextToken ==
    /\ status = "scanning" /\ Top.i <= MaxScan
    /\ LET r == next_token(pos) IN
       IF r.ok
       THEN /\ pos' = r.pos
            /\ rv' = r.tok
            /\ kont' = WithTop([Top EXCEPT !.i = @ + 1, !.acc = Append(@, r.tok)])
            /\ UNCHANGED <<finished, input, current_token, program, env_stack, functions, status, err,
                           output, next_id>>
       ELSE /\ status' = "panic"
            /\ err' = r.msg
            /\ UNCHANGED <<finished, input, pos, current_token, program, env_stack, functions, kont, rv,
                           output, next_id>>

\* The texts given to the Lexer: every word alone, between spaces and
\* before `(`; closed and unclosed string literals; operators, numbers and
\* characters that are no token.
WordTexts ==
    UNION {{Spelling[w], <<" ", "\t">> \o Spelling[w] \o <<" ">>, Spelling[w] \o <<"(">>,
            Spelling[w] \o <<" ">> \o Spelling[w]} : w \in DOMAIN Spelling}
StringTexts ==
    {<<"\"", "a", "b", "\"">>, <<"\"", "a", "b">>, <<"\"", "a", "b", "\n">>, <<"\"">>,
     <<"\"", "\"">>, <<"\"", "\n", "\"">>, <<"\"", "a", "\n", "b", "\"">>,
     <<"\"", "a", " ", "b", "\"", " ", "\"", "b">>, <<"x", " ", "\"", "a", " ">>,
     <<"\"", "a", "\"", "\"", "b", "\n">>, <<"\"", "+", "1", "\"", "\n", "\"", "x">>}
OtherTexts ==
    {<<>>, <<" ">>, <<"\n">>, <<"=">>, <<"=", "=">>, <<"=", " ", "=">>, <<"=", "=", "=">>,
     <<"!", "=">>, <<"!">>, <<"!", " ", "=">>, <<"<", "=">>, <<"<">>, <<">", "=">>, <<">">>,
     <<"<", ">">>, <<"#">>, <<"x", "#">>, <<"1", "2">>, <<"9", "9", "9", "9">>, <<"1", "a">>,
     <<"0", "0", "7">>, <<"+", "-", "*", "/", "%">>, <<"{", "}", "[", "]", "(">>,
     <<")", ":", ";", ",">>, <<"x", "\n", "\n", "y">>, <<"x", "=", "1">>, <<"x", "=", "=", "1">>,
     <<"i", "f", "f", " ", "i", "f">>, <<"m", "u", "t", " ", "x">>}
LexTexts == WordTexts \cup StringTexts \cup OtherTexts

(***************************************************************************)
(* parser.rs: Parser.  The parsing functions are activations on `kont`     *)
(* like the interpreter's: the expression grammar                          *)
(* primary -> factor -> term -> expr, expression statements, and           *)
(* parse_program without function definitions.  A parsing function leaves  *)
(* the node it has built in `rv`.  A step ends with the lexer and          *)
(* current_token as `here`, or as `bump` leaves them.                      *)
(***************************************************************************)
\* Parser::bump: current_token = self.lexer.next_token()
bump == next_token(pos)
here == Scanned(current_token, pos)

\* Parser::skip_newlines, from the scanner state lx on
RECURSIVE skip_newlines(_)
skip_newlines(lx) ==
    IF lx.ok /\ lx.tok.k = "Newline" THEN skip_newlines(next_token(lx.pos)) ELSE lx

Parsing(fn) == status = "parsing" /\ kont # <<>> /\ Top.fn = fn

\* A panic of the lexer or of the parser: the run is aborted where it stands.
ParseError(msg) ==
    /\ status' = "panic"
    /\ err' = msg
    /\ UNCHANGED <<finished, input, pos, current_token, program, env_stack, functions, kont, rv, output,
                   next_id>>

PStep(k2, rv2, lx) ==
    IF lx.ok
    THEN /\ kont' = k2
         /\ rv' = rv2
         /\ pos' = lx.pos
         /\ current_token' = lx.tok
         /\ UNCHANGED <<finished, input, program, env_stack, functions, status, err, output, next_id>>
    ELSE ParseError(lx.msg)

PGoto(fr, lx) == PStep(WithTop(fr), rv, lx)
PInvoke(fr, fn, node, lx) == PStep(CallK(fr, Act(fn, node, <<>>)), rv, lx)
PReturn(node, lx) == PStep(RetK, node, lx)

ParsePrimary ==
    /\ Parsing("parse_primary")
    /\ LET fr == Top
           t == current_token IN
       CASE fr.pc = 0 ->
              IF t.k = "IntLiteral" THEN PReturn(EInt(t.n), bump)
              ELSE IF t.k = "StrLiteral" THEN PReturn(EStr(t.s), bump)
              ELSE IF t.k = "KwTrue" THEN PReturn(EBool(TRUE), bump)
              ELSE IF t.k = "KwFalse" THEN PReturn(EBool(FALSE), bump)
              ELSE IF t.k = "Ident" THEN PReturn(EVar(t.name), bump)
              ELSE IF t.k = "LParen" THEN PInvoke([fr EXCEPT !.pc = 1], "parse_expr", <<>>, bump)
              ELSE IF t.k = "LBracket"
              THEN PInvoke([fr EXCEPT !.pc = 2], "parse_list_literal", <<>>, here)
              ELSE ParseError("unexpected token in primary expression")
         [] fr.pc = 1 ->
              IF t.k # "RParen" THEN ParseError("expected ')' after parenthesized expression")
              ELSE PReturn(rv, bump)
         [] fr.pc = 2 -> PReturn(rv, here)

\* pc 1 is the head of the loop, with the node in rv.
ParseFactor ==
    /\ Parsing("parse_factor")
    /\ LET fr == Top IN
       CASE fr.pc = 0 -> PInvoke([fr EXCEPT !.pc = 1], "parse_primary", <<>>, here)
         [] fr.pc = 1 ->
              IF current_token.k = "LParen" THEN PInvoke(fr, "parse_call", rv, here)
              ELSE PReturn(rv, here)

\* The activation's node is calle_expr; current_token is the `(` after it.
ParseCall ==
    /\ Parsing("parse_call")
    /\ LET fr == Top IN
       CASE fr.pc = 0 ->
              IF fr.node.k # "Var"
              THEN ParseError("can only call functions by name, got expression")
              ELSE IF ~bump.ok \/ bump.tok.k # "RParen"
              THEN PInvoke([fr EXCEPT !.pc = 1], "parse_expr", <<>>, bump)
              ELSE PGoto([fr EXCEPT !.pc = 2], bump)
         [] fr.pc = 1 ->
              LET args == Append(fr.acc, rv) IN
              IF current_token.k = "Comma"
              THEN PInvoke([fr EXCEPT !.acc = args], "parse_expr", <<>>, bump)
              ELSE PGoto([fr EXCEPT !.pc = 2, !.acc = args], here)
         [] fr.pc = 2 ->
              IF current_token.k # "RParen"
              THEN ParseError("expected ')' at the end of the function call")
              ELSE PReturn(ECall(fr.node.name, fr.acc), bump)

\* current_token is `[`.
ParseListLiteral ==
    /\ Parsing("parse_list_literal")
    /\ LET fr == Top IN
       CASE fr.pc = 0 ->
              IF ~bump.ok \/ bump.tok.k # "RBracket"
              THEN PInvoke([fr EXCEPT !.pc = 1], "parse_expr", <<>>, bump)
              ELSE PGoto([fr EXCEPT !.pc = 2], bump)
         [] fr.pc = 1 ->
              LET items == Append(fr.acc, rv) IN
              IF current_token.k = "Comma"
              THEN PInvoke([fr EXCEPT !.acc = items], "parse_expr", <<>>, bump)
              ELSE PGoto([fr EXCEPT !.pc = 2, !.acc = items], here)
         [] fr.pc = 2 ->
              IF current_token.k # "RBracket"
              THEN ParseError("expected ']' at end of list literal")
              ELSE PReturn(EListLiteral(fr.acc), bump)

\* The head of the loop of parse_term and of parse_expr: with `node` built,
\* an operator of `ops` (token kind -> BinOp) is bumped and its right
\* operand parsed by `operand`, any other token ends the function.
ChainLoop(fr, node, ops, operand) ==
    LET k == current_token.k IN
    IF k \in DOMAIN ops
    THEN PInvoke([fr EXCEPT !.pc = 2, !.acc = <<node, ops[k]>>], operand, <<>>, bump)
    ELSE PReturn(node, here)

TermLevelOp == [Star |-> "Mul", Slash |-> "Div"]
ExprLevelOp ==
    [Plus |-> "Add", Minus |-> "Sub", EqEq |-> "Eq", NotEq |-> "NotEq",
     Lt |-> "Lt", LtEq |-> "LtEq", Gt |-> "Gt", GtEq |-> "GtEq"]

\* parse_term as it would be if it chained `+` and `-` too.
ParseTerm_flat ==
    /\ Parsing("parse_term")
    /\ LET fr == Top
           ops == [Star |-> "Mul", Slash |-> "Div", Plus |-> "Add", Minus |-> "Sub"] IN
       CASE fr.pc = 0 -> PInvoke([fr EXCEPT !.pc = 1], "parse_factor", <<>>, here)
         [] fr.pc = 1 -> ChainLoop(fr, rv, ops, "parse_factor")
         [] fr.pc = 2 ->
              ChainLoop(fr, EBinary(fr.acc[1], fr.acc[2], rv), ops, "parse_factor")

\* pc 1: the first factor is in rv; pc 2: the right operand is in rv.
ParseTerm ==
    /\ Parsing("parse_term")
    /\ LET fr == Top IN
       CASE fr.pc = 0 -> PInvoke([fr EXCEPT !.pc = 1], "parse_factor", <<>>, here)
         [] fr.pc = 1 -> ChainLoop(fr, rv, TermLevelOp, "parse_factor")
         [] fr.pc = 2 ->
              ChainLoop(fr, EBinary(fr.acc[1], fr.acc[2], rv), TermLevelOp, "parse_factor")

\* parse_expr as it would be if the right operand of an operator were the
\* whole rest of the expression.
ParseExpr_right_assoc ==
    /\ Parsing("parse_expr")
    /\ LET fr == Top IN
       CASE fr.pc = 0 -> PInvoke([fr EXCEPT !.pc = 1], "parse_term", <<>>, here)
         [] fr.pc = 1 -> ChainLoop(fr, rv, ExprLevelOp, "parse_expr")
         [] fr.pc = 2 ->
              ChainLoop(fr, EBinary(fr.acc[1], fr.acc[2], rv), ExprLevelOp, "parse_expr")

ParseExpr ==
    /\ Parsing("parse_expr")
    /\ LET fr == Top IN
       CASE fr.pc = 0 -> PInvoke([fr EXCEPT !.pc = 1], "parse_term", <<>>, here)
         [] fr.pc = 1 -> ChainLoop(fr, rv, ExprLevelOp, "parse_term")
         [] fr.pc = 2 ->
              ChainLoop(fr, EBinary(fr.acc[1], fr.acc[2], rv), ExprLevelOp, "parse_term")

\* The first tokens of the statements that are not expression statements.
StmtKeywords == {"Kwvar", "KwIf", "KwWhile", "KwFor", "KwReturn"}

\* Parser::peek_token: next_token() of a clone of the lexer
peek_token == next_token(pos)

ParseAssignStmt ==
    /\ Parsing("parse_assign_stmt")
    /\ LET fr == Top IN
       CASE fr.pc = 0 ->
              IF current_token.k # "Ident"
              THEN ParseError("expected identifier at start of assignment")
              ELSE PGoto([fr EXCEPT !.pc = 1, !.acc = <<current_token.name>>], bump)
         [] fr.pc = 1 ->
              IF current_token.k # "Eq" THEN ParseError("expected Eq")
              ELSE PInvoke([fr EXCEPT !.pc = 2], "parse_expr", <<>>, bump)
         [] fr.pc = 2 ->
              PReturn(SAssign(fr.acc[1], rv), IF current_token.k = "Newline" THEN bump ELSE here)

\* parse_stmt as it would be if peek_token() scanned with the parser's own
\* lexer instead of a clone of it.
ParseStmt_peek_consumes ==
    /\ Parsing("parse_stmt")
    /\ Top.pc = 0 => current_token.k \notin StmtKeywords
    /\ LET fr == Top IN
       CASE fr.pc = 0 ->
              IF current_token.k = "Ident"
              THEN IF ~peek_token.ok THEN ParseError(peek_token.msg)
                   ELSE PGoto([fr EXCEPT !.pc = 3, !.acc = <<peek_token.tok>>, !.i = pos],
                              Scanned(current_token, peek_token.pos))
              ELSE PInvoke([fr EXCEPT !.pc = 1], "parse_expr", <<>>, here)
         [] fr.pc = 3 ->
              IF fr.acc[1].k = "Eq"
              THEN PInvoke([fr EXCEPT !.pc = 2], "parse_assign_stmt", <<>>, here)
              ELSE PInvoke([fr EXCEPT !.pc = 1], "parse_expr", <<>>, here)
         [] fr.pc = 1 ->
              PReturn(SExprStmt(rv), IF current_token.k = "Newline" THEN bump ELSE here)
         [] fr.pc = 2 -> PReturn(rv, here)

\* parse_stmt, its Ident arm and its last arm.  pc 0 -> 3 is the call of
\* peek_token(): the token it returns is kept in `acc` and the position of
\* the lexer at the call in `i`; pc 3 is the comparison with Token::Eq.
ParseStmt ==
    /\ Parsing("parse_stmt")
    /\ Top.pc = 0 => current_token.k \notin StmtKeywords
    /\ LET fr == Top IN
       CASE fr.pc = 0 ->
              IF current_token.k = "Ident"
              THEN IF ~peek_token.ok THEN ParseError(peek_token.msg)
                   ELSE PGoto([fr EXCEPT !.pc = 3, !.acc = <<peek_token.tok>>, !.i = pos], here)
              ELSE PInvoke([fr EXCEPT !.pc = 1], "parse_expr", <<>>, here)
         [] fr.pc = 3 ->
              IF fr.acc[1].k = "Eq"
              THEN PInvoke([fr EXCEPT !.pc = 2], "parse_assign_stmt", <<>>, here)
              ELSE PInvoke([fr EXCEPT !.pc = 1], "parse_expr", <<>>, here)
         [] fr.pc = 1 ->
              PReturn(SExprStmt(rv), IF current_token.k = "Newline" THEN bump ELSE here)
         [] fr.pc = 2 -> PReturn(rv, here)

\* parse_program, without its KwFunc arm.
ParseProgram ==
    /\ Parsing("parse_program")
    /\ LET fr == Top IN
       CASE fr.pc = 0 -> PGoto([fr EXCEPT !.pc = 1], skip_newlines(here))
         [] fr.pc = 1 ->
              IF current_token.k = "EOF" THEN PReturn(Program(<<>>, fr.acc), here)
              ELSE current_token.k # "KwFunc"
                   /\ PInvoke([fr EXCEPT !.pc = 2], "parse_stmt", <<>>, here)
         [] fr.pc = 2 ->
              PGoto([fr EXCEPT !.pc = 1, !.acc = Append(fr.acc, rv)], skip_newlines(here))

(***************************************************************************)
(* main.rs: main makes the Parser of a Lexer of the source text, and runs  *)
(* the Program that parse_program has returned on a fresh interpreter.     *)
(***************************************************************************)
\* Lexer::new and Parser::new, which reads the first token
ParserNew ==
    /\ status = "start"
    /\ IF bump.ok
       THEN /\ pos' = bump.pos
            /\ current_token' = bump.tok
            /\ kont' = <<Act("parse_program", <<>>, <<>>)>>
            /\ status' = "parsing"
            /\ UNCHANGED <<finished, input, program, env_stack, functions, rv, err, output, next_id>>
       ELSE ParseError(bump.msg)

Main ==
    /\ status = "parsing" /\ kont = <<>>
    /\ program' = rv
    /\ kont' = <<Act("run", rv, NewEnvStack)>>
    /\ rv' = None
    /\ status' = "running"
    /\ UNCHANGED <<finished, input, pos, current_token, env_stack, functions, err, output, next_id>>

(***************************************************************************)
(* Sources: `print(a op1 b op2 c)` over the four arithmetic operators,     *)
(* `print((a m b) p c)` and `print(a p (b m c))` for p of + - and m of     *)
(* * /, `print(1 + 2 * 3)`, and lines that reach the other arms of the     *)
(* expression grammar.                                                     *)
(***************************************************************************)
Atoms == {TInt(2), TInt(3), TIdent("x")}
AddOps == {"Plus", "Minus"}
MulOps == {"Star", "Slash"}
ArithOps == AddOps \cup MulOps
PrintSource(expr_toks) ==
    <<TIdent("print"), Tok("LParen")>> \o expr_toks \o <<Tok("RParen"), Tok("Newline")>>
Chain(a, op1, b, op2, c) == <<a, Tok(op1), b, Tok(op2), c>>
ParenLeft(a, op1, b, op2, c) == <<Tok("LParen"), a, Tok(op1), b, Tok("RParen"), Tok(op2), c>>
ParenRight(a, op1, b, op2, c) == <<a, Tok(op1), Tok("LParen"), b, Tok(op2), c, Tok("RParen")>>
ChainSources ==
    {PrintSource(Chain(a, op1, b, op2, c)) :
        a \in Atoms, op1 \in ArithOps, b \in Atoms, op2 \in ArithOps, c \in Atoms}
ParenSources ==
    {PrintSource(ParenLeft(a, m, b, p, c)) :
        a \in Atoms, m \in MulOps, b \in Atoms, p \in AddOps, c \in Atoms}
    \cup {PrintSource(ParenRight(a, p, b, m, c)) :
        a \in Atoms, p \in AddOps, b \in Atoms, m \in MulOps, c \in Atoms}
OtherSources ==
    {PrintSource(Chain(TInt(1), "Plus", TInt(2), "Star", TInt(3))),
     <<Tok("Newline")>> \o PrintSource(<<Tok("LBracket"), TInt(1), Tok("Comma"), TInt(2), Tok("Star"),
                  TInt(3), Tok("RBracket"), Tok("Comma"), TStr(<<"a">>), Tok("Plus"),
                  TStr(<<"b">>)>>),
     PrintSource(<<Tok("KwTrue"), Tok("EqEq"), Tok("KwFalse")>>) \o PrintSource(<<>>),
     PrintSource(<<TInt(1), Tok("Plus")>>),
     PrintSource(<<Tok("LParen"), TInt(1), Tok("Star"), TInt(2)>>),
     PrintSource(<<Tok("LBracket"), TInt(1), Tok("RParen")>>),
     <<TInt(1), Tok("LParen"), TInt(2), Tok("RParen")>>,
     <<TIdent("print"), Tok("LParen"), TInt(1), Tok("Newline")>>}

\* `print(a op1 b op2 c)` over the eight operators of the expr level, and
\* the three lines `print(10 - 3 - 2)`, `print(1 + 2 < 4)`, `print(1 < 2 + 3)`.
FlatOps == {"Plus", "Minus", "EqEq", "NotEq", "Lt", "LtEq", "Gt", "GtEq"}
FlatAtoms == {TInt(2), TInt(3)}
FlatSources ==
    {PrintSource(Chain(a, op1, b, op2, c)) :
        a \in FlatAtoms, op1 \in FlatOps, b \in FlatAtoms, op2 \in FlatOps, c \in FlatAtoms}
    \cup {PrintSource(Chain(TInt(10), "Minus", TInt(3), "Minus", TInt(2))),
          PrintSource(Chain(TInt(1), "Plus", TInt(2), "Lt", TInt(4))),
          PrintSource(Chain(TInt(1), "Lt", TInt(2), "Plus", TInt(3)))}

\* Statements that start with an identifier, as texts: assignments,
\* comparisons, other expressions, and identifiers followed by what is no
\* token.
IdentTexts ==
    {<<"x", " ", "=", " ", "1">>, <<"x", " ", "=", "=", " ", "1">>, <<"x", "=", "1", "\n">>,
     <<"x", "=", "=", "1", "\n">>, <<"x">>, <<"x", "\n">>, <<"x", " ", "=", " ", "=", " ", "1">>,
     <<"x", "=">>, <<"x", "=", "=">>, <<"x", " ", "+", " ", "1">>, <<"x", " ", "<", "=", "1">>,
     <<"x", "!", "=", "1">>, <<"x", " ", "#">>, <<"x", " ", "!">>, <<"x", " ", "\"", "a">>,
     <<"x", " ", "\"", "\n">>, <<"x", " ", "x">>, <<"x", " ", "9", "9", "9", "9">>,
     <<"x", "=", "1", "\n", "y", "=", "=", "2", "\n">>,
     <<"y", "=", "=", "2", "\n", "x", "=", "x", "\n">>,
     <<"p", "r", "i", "n", "t", "(", "1", ")", "\n", "x", " ", "=", " ", "2">>,
     <<"1", " ", "x", " ", "=", " ", "2">>, <<"(", "x", ")", " ", "=", " ", "2">>,
     <<"x", "(", ")", "=", "2">>, <<"x", "=", "x", "=", "2">>, <<"=", "x">>}

\* The text of a token, and of a token sequence: the tokens' texts, each
\* with a space before it.
TokenText(t) ==
    IF t.k = "IntLiteral" THEN IntText(t.n)
    ELSE IF t.k = "StrLiteral" THEN <<"\"">> \o t.s \o <<"\"">>
    ELSE IF t.k = "Ident" THEN Spelling[t.name]
    ELSE IF t.k = "Newline" THEN <<"\n">>
    ELSE IF t.k = "Eq" THEN <<"=">>
    ELSE IF t.k = "EqEq" THEN <<"=", "=">>
    ELSE IF t.k = "NotEq" THEN <<"!", "=">>
    ELSE IF t.k = "Lt" THEN <<"<">>
    ELSE IF t.k = "LtEq" THEN <<"<", "=">>
    ELSE IF t.k = "Gt" THEN <<">">>
    ELSE IF t.k = "GtEq" THEN <<">", "=">>
    ELSE IF \E c \in DOMAIN OneCharToken : OneCharToken[c] = t.k
    THEN <<CHOOSE c \in DOMAIN OneCharToken : OneCharToken[c] = t.k>>
    ELSE Spelling[CHOOSE w \in DOMAIN KeywordToken : KeywordToken[w] = t.k]

RECURSIVE SourceText(_)
SourceText(toks) ==
    IF toks = <<>> THEN <<>> ELSE <<" ">> \o TokenText(Head(toks)) \o SourceText(Tail(toks))

Sources ==
    {SourceText(toks) : toks \in ChainSources \cup ParenSources \cup OtherSources \cup FlatSources}
    \cup IdentTexts

(***************************************************************************)
(* The specification: a fresh interpreter runs one of the programs.        *)
(***************************************************************************)
Init ==
    /\ finished = <<>>
    /\ input = <<>>
    /\ pos = 0
    /\ current_token = Tok("EOF")
    /\ program \in Programs
    /\ env_stack = NewEnvStack
    /\ functions = EmptyMap
    /\ kont = <<Act("run", program, NewEnvStack)>>
    /\ rv = None
    /\ status = "running"
    /\ err = ""
    /\ output = <<>>
    /\ next_id = GlobalId + 1

Next ==
    \/ Run
    \/ ExecVarDecl
    \/ ExecExprStmt
    \/ ExecAssign
    \/ ExecReturn
    \/ ExecBranch
    \/ ExecWhile
    \/ ExecFor
    \/ ExecForEach
    \/ ExecBlock
    \/ EvalLiteral
    \/ EvalVar
    \/ EvalBinary
    \/ EvalListLiteral
    \/ EvalCallExpr
    \/ EvalCall
    \/ CallFunction

Spec == Init /\ [][Next]_vars

(***************************************************************************)
(* The same Program run on one fresh Interpreter after another: when a run *)
(* has ended, what its instance holds is noted, and Interpreter::new makes *)
(* the next instance, whose run starts from the Program's first statement. *)
(***************************************************************************)
Ended == status \in {"done", "panic"}

Held == [output |-> output, env_stack |-> env_stack, functions |-> functions,
         status |-> status, err |-> err]

\* Interpreter::new as it would be if the new instance were handed the
\* environment of the one before it.
InterpreterNew_keeps_env ==
    /\ Ended
    /\ Len(finished) + 1 < Instances
    /\ finished' = Append(finished, Held)
    /\ env_stack' = env_stack
    /\ functions' = EmptyMap
    /\ kont' = <<Act("run", program, env_stack)>>
    /\ rv' = None
    /\ status' = "running"
    /\ err' = ""
    /\ output' = <<>>
    /\ next_id' = GlobalId + 1
    /\ UNCHANGED <<input, pos, current_token, program>>

\* Interpreter::new, then run on the same Program; the lines the instance
\* prints are counted from its own start.
InterpreterNew ==
    /\ Ended
    /\ Len(finished) + 1 < Instances
    /\ finished' = Append(finished, Held)
    /\ env_stack' = NewEnvStack
    /\ functions' = EmptyMap
    /\ kont' = <<Act("run", program, NewEnvStack)>>
    /\ rv' = None
    /\ status' = "running"
    /\ err' = ""
    /\ output' = <<>>
    /\ next_id' = GlobalId + 1
    /\ UNCHANGED <<input, pos, current_token, program>>

RerunNext == Next \/ InterpreterNew

RerunSpec == Init /\ [][RerunNext]_vars

(***************************************************************************)
(* The specification of the whole binary: a source is parsed, and the      *)
(* Program it yields is run.                                               *)
(***************************************************************************)
ParseInit ==
    /\ finished = <<>>
    /\ input \in Sources
    /\ pos = 0
    /\ current_token = Tok("EOF")
    /\ program = Program(<<>>, <<>>)
    /\ env_stack = NewEnvStack
    /\ functions = EmptyMap
    /\ kont = <<>>
    /\ rv = None
    /\ status = "start"
    /\ err = ""
    /\ output = <<>>
    /\ next_id = GlobalId + 1

ParseNext ==
    \/ ParserNew
    \/ Main
    \/ ParseProgram
    \/ ParseStmt
    \/ ParseAssignStmt
    \/ ParseExpr
    \/ ParseTerm
    \/ ParseFactor
    \/ ParseCall
    \/ ParsePrimary
    \/ ParseListLiteral
    \/ Run
    \/ ExecExprStmt
    \/ ExecAssign
    \/ EvalLiteral
    \/ EvalVar
    \/ EvalBinary
    \/ EvalListLiteral
    \/ EvalCallExpr
    \/ EvalCall

ParseSpec == ParseInit /\ [][ParseNext]_vars

(***************************************************************************)
(* The specification of the Lexer alone, under repeated next_token().      *)
(***************************************************************************)
LexInit ==
    /\ finished = <<>>
    /\ input \in LexTexts
    /\ pos = 0
    /\ current_token = Tok("EOF")
    /\ program = Program(<<>>, <<>>)
    /\ env_stack = NewEnvStack
    /\ functions = EmptyMap
    /\ kont = <<Act("scan", <<>>, <<>>)>>
    /\ rv = None
    /\ status = "scanning"
    /\ err = ""
    /\ output = <<>>
    /\ next_id = GlobalId + 1

LexNext == NextToken

LexSpec == LexInit /\ [][LexNext]_vars

(***************************************************************************)
(* Vocabulary of the properties                                            *)
(***************************************************************************)
Depth == Len(env_stack)
TopIs(fn) == Running /\ Top.fn = fn
Returns == Running /\ kont' = RetK /\ status' = "running"
Panics == status' = "panic"

\* The top activation is about to read or to assign the variable `name`.
ReadsVar(name) == InExpr({"Var"}) /\ Top.node.name = name
StoresVar(name) == InStmt("Assign") /\ Top.pc = 1 /\ Top.node.name = name

\* The index of the scope frame the innermost executing user-function call
\* pushed for its parameters; 0 outside every call.
CalleeBase ==
    IF InnermostCall(kont) = 0 THEN 0 ELSE Len(kont[InnermostCall(kont)].e0) + 1
InCalleeBody == InnermostCall(kont) > 0 /\ kont[InnermostCall(kont)].pc >= 1

\* `name` is bound, and only in frames strictly between the global frame
\* and the callee's own frames: the non-global frames of its callers.
OnlyInCallerFrames(name) ==
    /\ Binders(env_stack, name) # {}
    /\ \A j \in Binders(env_stack, name) : 1 < j /\ j < CalleeBase

Names == {"x", "y", "g", "c", "k", "e", "a", "b", "n"}

SameValue(a, b) == a.tag = b.tag /\ a.v = b.v

(***************************************************************************)
(* C1: while the body of a user function executes, reading or assigning a  *)
(* name that is bound only in a non-global frame of a caller, and is not a *)
(* parameter or local of the callee, is a fatal error, at every call       *)
(* depth.                                                                  *)
(***************************************************************************)
C1_CallerScopeHidden ==
    [][\A name \in Names :
          (/\ Running
           /\ InCalleeBody
           /\ ReadsVar(name) \/ StoresVar(name)
           /\ OnlyInCallerFrames(name))
          => Panics]_vars

(***************************************************************************)
(* C2: when a statement, a block, a loop or a user-function call completes,*)
(* normally or with an escaping return, the environment stack holds the    *)
(* frames it held on entry: the same depth, the same frames, the same      *)
(* order.                                                                  *)
(***************************************************************************)
Scoped == {"exec_stmt", "exec_block", "call_function"}

C2_FramesPaired ==
    [][(Returns /\ Top.fn \in Scoped) => Ids(env_stack') = Top.e0]_vars

\* A loop has handed an escaping return to the function body, and only the
\* frame of the call is left above the frames of the caller.
C2_ReturnLeftLoop ==
    /\ TopIs("call_function") /\ Top.pc = 2 /\ rv # None
    /\ Top.node.body[Top.i].k \in {"While", "For", "ForEach"}
    /\ Depth = Len(Top.e0) + 1
    /\ next_id > env_stack[Depth].id + 2

(***************************************************************************)
(* C3: the environment stack always has at least one frame and its first   *)
(* frame is the global frame made with the interpreter; no step removes a  *)
(* name from the global frame, and a top-level declaration binds its name  *)
(* there.                                                                  *)
(***************************************************************************)
C3_GlobalFramePersists ==
    [][/\ Depth >= 1 /\ env_stack[1].id = GlobalId
       /\ Depth' >= 1 /\ env_stack'[1].id = GlobalId
       /\ \A name \in DOMAIN env_stack[1].vars : name \in DOMAIN env_stack'[1].vars
       /\ (InStmt("VarDecl") /\ Len(kont) = 2 /\ Returns)
             => Top.node.name \in DOMAIN env_stack'[1].vars]_vars

\* The run is over, frames were pushed and popped on the way, and the
\* top-level binding of x is still in the global frame.
C3_GlobalKeptToTheEnd ==
    /\ status = "done"
    /\ Depth = 1 /\ env_stack[1].id = GlobalId
    /\ "x" \in DOMAIN env_stack[1].vars
    /\ next_id > 2

(***************************************************************************)
(* C4: once a `return` has executed inside a while loop of a user function,*)
(* that loop evaluates no further condition and runs no further iteration  *)
(* (its next step hands the returned value on), and the call runs no       *)
(* further statement: its next step returns exactly the returned value.    *)
(***************************************************************************)
C4_ReturnInWhileEndsCall ==
    [][/\ (InStmt("While") /\ Top.esc # None) => (Returns /\ rv' = Top.esc)
       /\ (TopIs("call_function") /\ Top.escw)
             => (Returns /\ SameValue(rv', Top.esc[1]))]_vars

(***************************************************************************)
(* C5: a call whose name is a builtin's never starts a user function; a    *)
(* call of any other name starts the user function of that name, and is    *)
(* the fatal unknown-function error when there is none.  No user function  *)
(* with a builtin's name is ever executing.                                *)
(***************************************************************************)
Dispatching == TopIs("eval_call") /\ Top.pc = 0 /\ Top.i > Len(Top.node.args)
StartsCallOf(f) ==
    /\ status' = "running"
    /\ Len(kont') = Len(kont) + 1
    /\ kont'[Len(kont')].fn = "call_function"
    /\ kont'[Len(kont')].node = f

C5_BuiltinsResolvedFirst ==
    [][/\ Dispatching =>
            IF Top.node.callee \in BuiltinNames
            THEN Len(kont') <= Len(kont)
            ELSE IF Top.node.callee \in DOMAIN functions
            THEN StartsCallOf(functions[Top.node.callee])
            ELSE Panics /\ err' = "Unknown function"
       /\ \A j \in 1..Len(kont') :
            kont'[j].fn = "call_function" => kont'[j].node.name \notin BuiltinNames]_vars

\* `len("ab")` was answered by the builtin although the program defines a
\* function `len`, whose body (g = 1, return 9) did not run.
C5_UserLenNotRun ==
    /\ status = "done"
    /\ "len" \in DOMAIN functions
    /\ program.stmts[2] = SPrint(<<ECall("len", <<EStr(Txt_ab)>>)>>)
    /\ output = <<<<"2">>, <<"0">>>>

(***************************************************************************)
(* C6 as stated: a call with a number of arguments other than the number   *)
(* of parameters is fatal, with no frame pushed and no body statement run; *)
(* otherwise one frame is pushed that binds exactly the parameter names,   *)
(* each to the argument at its own position.                               *)
(***************************************************************************)
EntersCall == TopIs("call_function") /\ Top.pc = 0
ParamNames(func) == {func.params[j][1] : j \in 1..Len(func.params)}
PushesLocals(func) ==
    /\ status' = "running"
    /\ Depth' = Depth + 1
    /\ SubSeq(env_stack', 1, Depth) = env_stack
    /\ DOMAIN env_stack'[Depth'].vars = ParamNames(func)
    /\ Len(kont') = Len(kont)
RejectsCall == Panics /\ err' = "function expected arguments" /\ env_stack' = env_stack /\ kont' = kont

C6_PositionalBinding ==
    [][EntersCall =>
         IF Len(Top.node.params) # Len(Top.acc) THEN RejectsCall
         ELSE /\ PushesLocals(Top.node)
              /\ \A j \in 1..Len(Top.node.params) :
                    SameValue(env_stack'[Depth'].vars[Top.node.params[j][1]], Top.acc[j])]_vars

(***************************************************************************)
(* C6 amended: as above, but each parameter name is bound to the argument  *)
(* at the position of the last parameter of that name (its own position    *)
(* when the names are distinct); and `add(2, 3)` evaluates to Int(5).      *)
(***************************************************************************)
LastParam(func, name) ==
    CHOOSE j \in 1..Len(func.params) :
        /\ func.params[j][1] = name
        /\ \A l \in (j + 1)..Len(func.params) : func.params[l][1] # name

C6_LastParamBinding ==
    [][/\ EntersCall =>
            IF Len(Top.node.params) # Len(Top.acc) THEN RejectsCall
            ELSE /\ PushesLocals(Top.node)
                 /\ \A name \in ParamNames(Top.node) :
                       SameValue(env_stack'[Depth'].vars[name],
                                 Top.acc[LastParam(Top.node, name)])
       /\ (program = AddProgram /\ TopIs("eval_call") /\ Top.pc = 2 /\ Top.node.callee = "add")
             => SameValue(rv, VInt(5))]_vars

\* `dup(0, 1)` for `func dup(a: int, a: int)` has pushed its frame: a is 1.
C6_DupBound ==
    /\ TopIs("call_function") /\ Top.pc = 1 /\ Top.node.name = "dup"
    /\ Len(Top.acc) = 2
    /\ SameValue(Top.acc[1], VInt(0)) /\ SameValue(Top.acc[2], VInt(1))
    /\ SameValue(env_stack[Depth].vars["a"], VInt(1))

(***************************************************************************)
(* C7: once a `return` has executed in the body of a user-function call,   *)
(* the call runs no further body statement and its result is the value of  *)
(* that (first) return, Unit for a bare `return`; a call in whose body no  *)
(* `return` has executed results in Unit.                                  *)
(***************************************************************************)
C7_FirstReturnIsResult ==
    [][/\ (TopIs("call_function") /\ Top.esc # None)
             => (Returns /\ SameValue(rv', Top.esc[1]))
       /\ (TopIs("call_function") /\ Top.esc = None /\ Returns)
             => SameValue(rv', VUnit)]_vars

(***************************************************************************)
(* C8: the store of an assignment `name = expr` replaces the value of      *)
(* `name` in the innermost frame that binds it and changes nothing else:   *)
(* the same frames, the same names in each, every other value as before.   *)
(* When no frame binds `name` it is a fatal error and no frame changes.    *)
(***************************************************************************)
Storing == InStmt("Assign") /\ Top.pc = 1
Innermost(name, j) ==
    /\ name \in DOMAIN env_stack[j].vars
    /\ \A l \in (j + 1)..Depth : name \notin DOMAIN env_stack[l].vars

C8_AssignOneBinding ==
    [][Storing =>
         IF \A j \in 1..Depth : Top.node.name \notin DOMAIN env_stack[j].vars
         THEN Panics /\ env_stack' = env_stack
         ELSE /\ Returns
              /\ Depth' = Depth
              /\ \A j \in 1..Depth :
                   /\ env_stack'[j].id = env_stack[j].id
                   /\ DOMAIN env_stack'[j].vars = DOMAIN env_stack[j].vars
                   /\ \A n \in DOMAIN env_stack[j].vars :
                        IF n = Top.node.name /\ Innermost(n, j)
                        THEN SameValue(env_stack'[j].vars[n], rv)
                        ELSE env_stack'[j].vars[n] = env_stack[j].vars[n]]_vars

\* x is bound in the global frame (0) and in a block's frame (declared 1):
\* an assignment of 11 has changed the block's binding and not the global.
C8_InnerAssigned ==
    /\ Running /\ Depth >= 2
    /\ "x" \in DOMAIN env_stack[1].vars /\ "x" \in DOMAIN env_stack[2].vars
    /\ SameValue(env_stack[1].vars["x"], VInt(0))
    /\ SameValue(env_stack[2].vars["x"], VInt(11))

(***************************************************************************)
(* C9: a declaration binds its name in the innermost frame, over a binding *)
(* of that name already there, and leaves the rest of that frame and every *)
(* frame below unchanged; a step that shortens the stack removes only the  *)
(* innermost frame; and a read of a variable yields the value of the       *)
(* innermost frame that binds it.                                          *)
(***************************************************************************)
Declaring == InStmt("VarDecl") /\ Top.pc = 1

C9_DeclareInnermost ==
    [][/\ (Declaring /\ Returns) =>
            /\ Depth' = Depth
            /\ SubSeq(env_stack', 1, Depth - 1) = SubSeq(env_stack, 1, Depth - 1)
            /\ env_stack'[Depth].id = env_stack[Depth].id
            /\ DOMAIN env_stack'[Depth].vars = DOMAIN env_stack[Depth].vars \cup {Top.node.name}
            /\ SameValue(env_stack'[Depth].vars[Top.node.name], rv)
            /\ \A n \in DOMAIN env_stack[Depth].vars \ {Top.node.name} :
                  env_stack'[Depth].vars[n] = env_stack[Depth].vars[n]
       /\ Depth' < Depth => env_stack' = SubSeq(env_stack, 1, Depth - 1)
       /\ (InExpr({"Var"}) /\ Returns) =>
            \E j \in 1..Depth :
               /\ Innermost(Top.node.name, j)
               /\ SameValue(rv', env_stack[j].vars[Top.node.name])]_vars

\* `var x = 0`, then in a block `var x = 1`: x printed inside the block was
\* 1 and x printed after the block is 0 again.
C9_OuterFoundAgain ==
    /\ program \in ScopePrograms
    /\ program.stmts[1] = SVarDecl("x", "int", EInt(0))
    /\ program.stmts[2].then_branch[1] = SVarDecl("x", "int", EInt(1))
    /\ Len(output) >= 3
    /\ output[2] = <<"1">> /\ output[3] = <<"0">>

(***************************************************************************)
(* C10: once its initializer is evaluated, a declaration whose declared    *)
(* type is int, bool, str or list binds the name when the value's tag is   *)
(* Int, Bool, Str or List respectively; with any other tag, Unit included, *)
(* it is a fatal error and no frame changes.                               *)
(***************************************************************************)
TagOfType == [int |-> "Int", bool |-> "Bool", str |-> "Str", list |-> "List"]

C10_DeclTypeCheck ==
    [][Declaring =>
         IF rv.tag = TagOfType[Top.node.ty]
         THEN Returns /\ Top.node.name \in DOMAIN env_stack'[Depth'].vars
         ELSE /\ Panics /\ err' = "type error: variable declared as"
              /\ env_stack' = env_stack]_vars

\* A declaration with a Unit initializer has failed; x is not bound.
C10_UnitInitializerRejected ==
    /\ status = "panic"
    /\ Top.fn = "exec_stmt" /\ Top.node.k = "VarDecl" /\ Top.pc = 1
    /\ rv.tag = "Unit"
    /\ \A j \in 1..Depth : "x" \notin DOMAIN env_stack[j].vars

(***************************************************************************)
(* C11: the store of an assignment to a declared variable never aborts the *)
(* run, whatever the tag of the value and the declared type: the innermost *)
(* binding of the name holds the value afterwards (after `var x: int = 5`, *)
(* `x = "a"` leaves x bound to Str("a")).                                  *)
(***************************************************************************)
C11_AssignAnyTag ==
    [][(Storing /\ \E j \in 1..Depth : Top.node.name \in DOMAIN env_stack[j].vars)
          => /\ Returns
             /\ \E j \in 1..Depth :
                   /\ Innermost(Top.node.name, j)
                   /\ SameValue(env_stack'[j].vars[Top.node.name], rv)]_vars

\* The run of `var x: int = 5`, `x = "a"`, `print(x)` is over: x is Str("a").
C11_IntVarHoldsStr ==
    /\ status = "done" /\ program \in AssignPrograms
    /\ program.stmts[1] = SVarDecl("x", "int", EInt(5))
    /\ SameValue(env_stack[1].vars["x"], VStr(<<"a">>))
    /\ output = <<<<"a">>>>

(***************************************************************************)
(* C12: a while loop starts by evaluating its condition and evaluates it   *)
(* again after every completed iteration; a condition that is not a Bool   *)
(* is fatal, a true one runs the body once, a false one ends the loop.     *)
(* The body runs in a frame of its own, empty when pushed and gone when    *)
(* the loop is next in control, so the condition and the next iteration    *)
(* see the frames the loop was entered with.                               *)
(***************************************************************************)
WhileAt(pc) == InStmt("While") /\ Top.pc = pc
Evaluates(e) ==
    /\ status' = "running"
    /\ Len(kont') = Len(kont) + 1
    /\ kont'[Len(kont')].fn = "eval_expr"
    /\ kont'[Len(kont')].node = e
RunsBlock(b) ==
    /\ status' = "running"
    /\ Len(kont') = Len(kont) + 1
    /\ kont'[Len(kont')].fn = "exec_block"
    /\ kont'[Len(kont')].node = b
    /\ env_stack' = env_stack
BackTo(pc) ==
    /\ status' = "running"
    /\ Len(kont') = Len(kont)
    /\ kont'[Len(kont')].pc = pc
    /\ env_stack' = env_stack
EntersBlock == TopIs("exec_block") /\ Top.pc = 0

C12_WhileLoop ==
    [][/\ WhileAt(0) => Evaluates(Top.node.cond)
       /\ WhileAt(1) =>
            IF rv.tag # "Bool" THEN Panics /\ err' = "while condition must be bool"
            ELSE IF rv.v THEN RunsBlock(Top.node.body)
            ELSE Returns /\ rv' = None
       /\ (WhileAt(2) /\ rv = None) => BackTo(0)
       /\ InStmt("While") => Ids(env_stack) = Top.e0
       /\ EntersBlock =>
            /\ Depth' = Depth + 1
            /\ SubSeq(env_stack', 1, Depth) = env_stack
            /\ DOMAIN env_stack'[Depth'].vars = {}]_vars

\* `while tick() { var d: int = c; c = c + 1 }` is over after MaxIter
\* iterations: tick printed c once per iteration and once more.
C12_CondOnceMore ==
    /\ status = "done"
    /\ program = WhileProgram(ECall("tick", <<>>), DeclBody)
    /\ SameValue(env_stack[1].vars["c"], VInt(MaxIter))
    /\ Len(output) = MaxIter + 2
    /\ "d" \notin DOMAIN env_stack[1].vars

(***************************************************************************)
(* C13: a C-style for pushes one empty frame and runs init, once; then the *)
(* condition (an absent one counts as true), the body when it is true, the *)
(* step after the body, and the condition again.  A false condition and an *)
(* escaping return from the body both pop that one frame and end the loop. *)
(* Until then the loop's frame is the frame on top whenever the loop is in *)
(* control, and no step replaces a frame that stays on the stack or takes  *)
(* a name out of it, so what init and step bind lasts until the loop ends. *)
(***************************************************************************)
ForAt(pc) == InStmt("For") /\ Top.pc = pc
Calls(fn, node) ==
    /\ status' = "running"
    /\ Len(kont') = Len(kont) + 1
    /\ kont'[Len(kont')].fn = fn
    /\ kont'[Len(kont')].node = node
Stays(pc) ==
    /\ status' = "running"
    /\ Len(kont') = Len(kont)
    /\ kont'[Len(kont')].pc = pc
PushesEmpty ==
    /\ Depth' = Depth + 1
    /\ SubSeq(env_stack', 1, Depth) = env_stack
    /\ DOMAIN env_stack'[Depth'].vars = {}
PopsOne == env_stack' = SubSeq(env_stack, 1, Depth - 1)
KeepsFrames ==
    \A j \in 1..Depth :
       j <= Depth' =>
          /\ env_stack'[j].id = env_stack[j].id
          /\ DOMAIN env_stack[j].vars \subseteq DOMAIN env_stack'[j].vars

C13_ForLoop ==
    [][/\ ForAt(0) =>
            /\ PushesEmpty
            /\ IF Top.node.init # None THEN Calls("exec_stmt", Top.node.init[1]) ELSE Stays(1)
       /\ ForAt(1) =>
            /\ env_stack' = env_stack
            /\ IF Top.node.cond # None THEN Calls("eval_expr", Top.node.cond[1])
               ELSE Calls("exec_block", Top.node.body)
       /\ ForAt(2) =>
            IF rv.tag # "Bool" THEN Panics /\ err' = "for condition must be bool"
            ELSE IF rv.v THEN Calls("exec_block", Top.node.body) /\ env_stack' = env_stack
            ELSE Returns /\ rv' = None /\ PopsOne
       /\ ForAt(3) =>
            IF rv # None THEN Returns /\ rv' = rv /\ PopsOne
            ELSE /\ env_stack' = env_stack
                 /\ IF Top.node.step # None THEN Calls("exec_stmt", Top.node.step[1])
                    ELSE Stays(1)
       /\ (InStmt("For") /\ Top.pc >= 1) => Ids(env_stack) = Top.e0 \o <<env_stack[Depth].id>>
       /\ KeepsFrames]_vars

\* `for (var k: int = 0; k < MaxIter; k = k + 1) { print(k) ... }` printed
\* 0 .. MaxIter - 1 and ended on its condition: f went on to return 9.
C13_CountedLoopDone ==
    /\ status = "done"
    /\ program = ForProgram(Some(SVarDecl("k", "int", EInt(0))), Some(Below("k")), Some(Inc("k")))
    /\ Len(output) = MaxIter + 1
    /\ output[1] = <<"0">> /\ output[2] = <<"1">>
    /\ output[MaxIter + 1] = <<"9">>

(***************************************************************************)
(* C14: a for-each over a negative Int is fatal with no frame pushed and   *)
(* nothing run; over n >= 0 it pushes one frame, runs the body with the    *)
(* variable bound to 0, 1, ..., n-1 in that order and ends after the n-th  *)
(* iteration: `for i in n { print(i) }` prints exactly 0 .. n-1, one per   *)
(* line (0, 1, 2 for n = 3), also when the body assigns i.                 *)
(***************************************************************************)
ForEachAt(pc) == InStmt("ForEach") /\ Top.pc = pc
EachIntOutput(n) == [j \in 1..n |-> IntText(j - 1)] \o <<Txt_end>>

C14_ForEachInt ==
    [][/\ (ForEachAt(1) /\ rv.tag = "Int") =>
            IF rv.v < 0
            THEN /\ Panics /\ err' = "for-each over negative int is not supported"
                 /\ env_stack' = env_stack /\ kont' = kont /\ output' = output
            ELSE PushesEmpty /\ Stays(2)
       /\ \A n \in EachInts, body \in EachBodies :
            program = EachIntProgram(n, body) =>
               /\ (ForEachAt(2) /\ Top.i <= n) =>
                     /\ Calls("exec_block", body)
                     /\ SameValue(env_stack'[Depth].vars["i"], VInt(Top.i - 1))
               /\ (ForEachAt(2) /\ Top.i > n) => (Returns /\ rv' = None /\ PopsOne)
               /\ status' = "done" => (n >= 0 /\ output' = EachIntOutput(n))
               /\ status' = "panic" => (n < 0 /\ output' = <<>> /\ Depth' = 1)]_vars

\* `for i in 3 { print(i) }` then `print("end")` has printed 0, 1, 2, end.
C14_ThreePrinted ==
    /\ status = "done"
    /\ program = EachIntProgram(3, <<SPrint(<<EVar("i")>>)>>)
    /\ output = <<<<"0">>, <<"1">>, <<"2">>, Txt_end>>

(***************************************************************************)
(* C15 as stated: for Int operands a / b is the quotient of a by b         *)
(* truncated toward zero whenever b is not 0, for every sign combination,  *)
(* and a fatal division-by-zero error when b is 0.                         *)
(***************************************************************************)
Dividing ==
    /\ InExpr({"Binary"}) /\ Top.pc = 2 /\ Top.node.op = "Div"
    /\ Top.acc[1].tag = "Int" /\ rv.tag = "Int"
\* q is a / b rounded toward zero.
Truncated(a, b, q) ==
    /\ Abs(q) * Abs(b) <= Abs(a)
    /\ Abs(a) < (Abs(q) + 1) * Abs(b)
    /\ q > 0 => ((a < 0) = (b < 0))
    /\ q < 0 => ((a < 0) # (b < 0))
YieldsQuotient(a, b) ==
    Returns /\ rv'.tag = "Int" /\ Truncated(a, b, rv'.v)
DivisionByZero == Panics /\ err' = "attempt to divide by zero"

C15_DivTruncates ==
    [][Dividing =>
         IF rv.v = 0 THEN DivisionByZero
         ELSE YieldsQuotient(Top.acc[1].v, rv.v)]_vars

(***************************************************************************)
(* C15 amended: as above, except that the least integer divided by -1,     *)
(* whose quotient is not in the range of Int, is a fatal overflow error.   *)
(***************************************************************************)
C15_DivTruncatesInRange ==
    [][Dividing =>
         IF rv.v = 0 THEN DivisionByZero
         ELSE IF Top.acc[1].v = IntMin /\ rv.v = 0 - 1
         THEN Panics /\ err' = "attempt to divide with overflow"
         ELSE YieldsQuotient(Top.acc[1].v, rv.v)]_vars

\* `print((0 - 7) / 2)` has printed -3.
C15_MinusSevenByTwo ==
    /\ status = "done"
    /\ program = DivProgram(0 - 7, 2)
    /\ output = <<<<"-", "3">>>>

(***************************************************************************)
(* C16: for two Str operands <, <=, >, >= yield the Bool that compares the *)
(* lengths of the strings, their numbers of characters as `len` counts     *)
(* them: strings of equal length are neither < nor > and both <= and >=.   *)
(***************************************************************************)
Ordering ==
    /\ InExpr({"Binary"}) /\ Top.pc = 2 /\ Top.node.op \in OrderOps
    /\ Top.acc[1].tag = "Str" /\ rv.tag = "Str"
Ordered(m, op, n) ==
    CASE op = "Lt" -> m < n
      [] op = "LtEq" -> m <= n
      [] op = "Gt" -> m > n
      [] op = "GtEq" -> m >= n

C16_StrOrderByLength ==
    [][Ordering =>
         /\ Returns
         /\ rv'.tag = "Bool"
         /\ rv'.v = Ordered(Len(Top.acc[1].v), Top.node.op, Len(rv.v))]_vars

(***************************************************************************)
(* C17: on two Int, two Str or two Bool operands `==` yields Bool(true)    *)
(* exactly when the values are equal and `!=` yields its negation (so      *)
(* `true != false` is Bool(true)).                                         *)
(***************************************************************************)
Applying(ops) == InExpr({"Binary"}) /\ Top.pc = 2 /\ Top.node.op \in ops
Comparable == {"Int", "Str", "Bool"}

C17_EqAndNotEq ==
    [][(Applying({"Eq", "NotEq"}) /\ Top.acc[1].tag = rv.tag /\ rv.tag \in Comparable) =>
         /\ Returns
         /\ rv'.tag = "Bool"
         /\ rv'.v = IF Top.node.op = "Eq" THEN Top.acc[1].v = rv.v ELSE Top.acc[1].v # rv.v]_vars

(***************************************************************************)
(* C18: a binary operator aborts the run with a type error, and yields no  *)
(* value, on operands of two different tags, on Str or Bool operands of    *)
(* - * /, on Bool operands of + < <= > >=, and on a List or Unit operand.  *)
(***************************************************************************)
OutsideRow(ltag, op, rtag) ==
    \/ ltag # rtag
    \/ op \in {"Sub", "Mul", "Div"} /\ ltag \in {"Str", "Bool"}
    \/ op \in {"Add"} \cup OrderOps /\ ltag = "Bool"
    \/ ltag \in {"List", "Unit"}
    \/ rtag \in {"List", "Unit"}
TypeErrors ==
    {"Type error in '+'", "Type error, you can't subtract non-int values",
     "Type error, you can't divide non-int values",
     "Type error, you can't multiply non-int values", "Type error in '=='",
     "Type error in '>'", "Type error in '>='", "Type error in '<'", "Type error in '<='",
     "Type error in '!='"}

C18_NoCoercion ==
    [][(Applying(BinOp) /\ OutsideRow(Top.acc[1].tag, Top.node.op, rv.tag)) =>
         /\ Panics /\ err' \in TypeErrors
         /\ rv' = rv /\ kont' = kont /\ output' = output]_vars

\* `print(1 + "a")` has aborted in `+`, nothing printed.
C18_IntPlusStrAborted ==
    /\ status = "panic" /\ err = "Type error in '+'"
    /\ program = OpProgram(EInt(1), "Add", EStr(<<"a">>))
    /\ output = <<>>

(***************************************************************************)
(* C19: an `if` or `elif` condition whose value is not a Bool aborts the   *)
(* run: no arm is entered and nothing after it is executed.                *)
(***************************************************************************)
Branching == InStmt("Branch") /\ Top.pc \in {1, 3}

C19_BranchCondMustBeBool ==
    [][(Branching /\ rv.tag # "Bool") => (Panics /\ kont' = kont /\ output' = output)]_vars

(***************************************************************************)
(* C20: `*` and `/` bind tighter than `+` and `-`.  For all operands a, b, *)
(* c, every p of + - and every m of * /: `a p b m c` parses to the tree    *)
(* with `b m c` as the right operand of p, which is the tree of            *)
(* `a p (b m c)`; `a m b p c` parses to the tree with `a m b` as the left  *)
(* operand of p, which is the tree of `(a m b) p c`; and the run of        *)
(* `print(1 + 2 * 3)` prints 7.                                            *)
(***************************************************************************)
Leaf(t) == IF t.k = "Ident" THEN EVar(t.name) ELSE EInt(t.n)
OpOf(k) == CASE k = "Plus" -> "Add" [] k = "Minus" -> "Sub"
             [] k = "Star" -> "Mul" [] k = "Slash" -> "Div"
             [] k = "EqEq" -> "Eq" [] k = "NotEq" -> "NotEq" [] k = "Lt" -> "Lt"
             [] k = "LtEq" -> "LtEq" [] k = "Gt" -> "Gt" [] k = "GtEq" -> "GtEq"
Printing(e) == Program(<<>>, <<SPrint(<<e>>)>>)
MulOnRight(a, p, b, m, c) ==
    EBinary(Leaf(a), OpOf(p), EBinary(Leaf(b), OpOf(m), Leaf(c)))
MulOnLeft(a, m, b, p, c) ==
    EBinary(EBinary(Leaf(a), OpOf(m), Leaf(b)), OpOf(p), Leaf(c))
Parsed(e) == status' = "running" /\ program' = Printing(e)
OnePlusTwoTimesThree ==
    SourceText(PrintSource(Chain(TInt(1), "Plus", TInt(2), "Star", TInt(3))))

ParseReturned == status = "parsing" /\ kont = <<>>

\* Each source of the claim with the tree it is to parse to.
TighterCases ==
    UNION {{<<SourceText(PrintSource(Chain(a, p, b, m, c))), MulOnRight(a, p, b, m, c)>>,
            <<SourceText(PrintSource(ParenRight(a, p, b, m, c))), MulOnRight(a, p, b, m, c)>>,
            <<SourceText(PrintSource(Chain(a, m, b, p, c))), MulOnLeft(a, m, b, p, c)>>,
            <<SourceText(PrintSource(ParenLeft(a, m, b, p, c))), MulOnLeft(a, m, b, p, c)>>} :
           <<a, b, c, p, m>> \in (Atoms \cup {TInt(1)}) \X Atoms \X Atoms \X AddOps \X MulOps}
TighterTexts == {case[1] : case \in TighterCases}

C20_MulBindsTighter ==
    /\ [][ParseReturned =>
            \A case \in TighterCases : input = case[1] => Parsed(case[2])]_vars
    /\ [](input \in TighterTexts /\ status = "panic" => program # Program(<<>>, <<>>))
    /\ [](input = OnePlusTwoTimesThree /\ status \in {"done", "panic"}
            => status = "done" /\ output = <<IntText(7)>>)

\* `print(1 + 2 * 3)` was parsed to 1 + (2 * 3), run, and has printed 7.
C20_SevenPrinted ==
    /\ input = OnePlusTwoTimesThree
    /\ program = Printing(EBinary(EInt(1), "Add", EBinary(EInt(2), "Mul", EInt(3))))
    /\ status = "done"
    /\ output = <<IntText(7)>>

(***************************************************************************)
(* C21: + - == != < <= > >= share one precedence level and chain to the    *)
(* left: for all operands a, b, c and operators op1, op2 of this set,      *)
(* `a op1 b op2 c` parses to the tree of `(a op1 b) op2 c`.  So            *)
(* `print(10 - 3 - 2)` prints 5, `print(1 + 2 < 4)` prints true, and       *)
(* `1 < 2 + 3` is parsed as `(1 < 2) + 3`, whose evaluation aborts with    *)
(* the type error of `+`.                                                  *)
(***************************************************************************)
FlatText(a, op1, b, op2, c) == SourceText(PrintSource(Chain(a, op1, b, op2, c)))
TenMinusThreeMinusTwo == FlatText(TInt(10), "Minus", TInt(3), "Minus", TInt(2))
OnePlusTwoLessFour == FlatText(TInt(1), "Plus", TInt(2), "Lt", TInt(4))
OneLessTwoPlusThree == FlatText(TInt(1), "Lt", TInt(2), "Plus", TInt(3))
Finished == status \in {"done", "panic"}

\* Each source of the claim with the tree it is to parse to.
FlatCases ==
    {<<FlatText(a, op1, b, op2, c),
       EBinary(EBinary(Leaf(a), OpOf(op1), Leaf(b)), OpOf(op2), Leaf(c))>> :
     <<a, op1, b, op2, c>> \in
        (FlatAtoms \cup {TInt(1), TInt(10)}) \X FlatOps \X (FlatAtoms \cup {TInt(3)}) \X FlatOps
        \X (FlatAtoms \cup {TInt(4)})}
FlatTexts == {SourceText(toks) : toks \in FlatSources}

C21_FlatLeftAssociative ==
    /\ [][ParseReturned =>
            \A case \in FlatCases : input = case[1] => Parsed(case[2])]_vars
    /\ [](input \in FlatTexts /\ status = "panic" => program # Program(<<>>, <<>>))
    /\ [](input = TenMinusThreeMinusTwo /\ Finished
            => status = "done" /\ output = <<IntText(5)>>)
    /\ [](input = OnePlusTwoLessFour /\ Finished
            => status = "done" /\ output = <<BoolText(TRUE)>>)
    /\ [](input = OneLessTwoPlusThree /\ Finished
            => status = "panic" /\ err = "Type error in '+'" /\ output = <<>>)

\* `print(1 < 2 + 3)` was parsed to (1 < 2) + 3 and its run has aborted in `+`.
C21_CompareThenAddAborted ==
    /\ input = OneLessTwoPlusThree
    /\ program = Printing(EBinary(EBinary(EInt(1), "Lt", EInt(2)), "Add", EInt(3)))
    /\ status = "panic" /\ err = "Type error in '+'"

(***************************************************************************)
(* C22: the scanner is idempotent at the end of the input.  Once the       *)
(* position has reached the end, every call of next_token() returns the    *)
(* end-of-input token and leaves the position where it is, however often   *)
(* it is repeated.                                                         *)
(***************************************************************************)
Scanning == status = "scanning"
AtEnd == pos = Len(input)

C22_IdempotentAtEnd ==
    /\ [][(Scanning /\ AtEnd) => (Scanning' /\ rv' = Tok("EOF") /\ pos' = pos)]_vars
    /\ [](Scanning /\ AtEnd /\ Top.i <= MaxScan => ENABLED NextToken)

\* Three calls in a row at the end of a text of two tokens have returned the
\* end-of-input token.
C22_ThreeTimesEOF ==
    /\ Scanning /\ AtEnd
    /\ input = <<"x", "=", "1">>
    /\ Top.acc = <<TIdent("x"), Tok("Eq"), TInt(1), Tok("EOF"), Tok("EOF"), Tok("EOF")>>

(***************************************************************************)
(* C23: a maximal run of letters, digits and underscores that starts with  *)
(* a letter or an underscore is a keyword token exactly when its text is   *)
(* in the keyword table, and in every other case the identifier token of   *)
(* that text.  The claim's table is var, func, return, if, elif, else,     *)
(* while, for, in, true, false; the table of the amended claim has `mut`   *)
(* too.                                                                    *)
(***************************************************************************)
WordChars == Lower \cup Upper \cup Digits \cup {"_"}
\* The position at which the next token starts: after the spaces and tabs.
TokenStart ==
    CHOOSE p \in pos..Len(input) :
        /\ \A j \in (pos + 1)..p : input[j] \in {" ", "\t"}
        /\ p < Len(input) => input[p + 1] \notin {" ", "\t"}
StartsWord == TokenStart < Len(input) /\ input[TokenStart + 1] \in Lower \cup Upper \cup {"_"}
\* The end of the maximal run of word characters from TokenStart.
RunEnd ==
    CHOOSE q \in TokenStart..Len(input) :
        /\ \A j \in (TokenStart + 1)..q : input[j] \in WordChars
        /\ q < Len(input) => input[q + 1] \notin WordChars
RunText == SubSeq(input, TokenStart + 1, RunEnd)
ClaimedKeywords ==
    {"var", "func", "return", "if", "elif", "else", "while", "for", "in", "true", "false"}
ClassifiedBy(keywords) ==
    /\ Scanning' /\ pos' = RunEnd
    /\ IF Word(RunText) \in keywords
       THEN rv'.k \notin {"Ident", "IntLiteral", "StrLiteral"} /\ Spelling[Word(RunText)] = TokenText(rv')
       ELSE rv' = TIdent(Word(RunText))

\* The claim as it stands.
C23_KeywordTable == [][(Scanning /\ StartsWord) => ClassifiedBy(ClaimedKeywords)]_vars

\* The amended claim.
C23_KeywordTableWithMut ==
    [][(Scanning /\ StartsWord) => ClassifiedBy(ClaimedKeywords \cup {"mut"})]_vars

\* `iff if` has been scanned to the identifier iff and the keyword `if`.
C23_IdentThenKeyword ==
    /\ Scanning
    /\ input = <<"i", "f", "f", " ", "i", "f">>
    /\ Top.acc = <<TIdent("iff"), Tok("KwIf")>>

(***************************************************************************)
(* C24: an unterminated string literal is a fatal lexical error.  When an  *)
(* opening double-quote is followed by a newline or by the end of the      *)
(* input before any closing double-quote, next_token() aborts and returns  *)
(* no string-literal token.                                                *)
(***************************************************************************)
StartsString == TokenStart < Len(input) /\ input[TokenStart + 1] = "\""
Unterminated ==
    \E q \in (TokenStart + 1)..Len(input) :
        /\ \A j \in (TokenStart + 2)..q : input[j] \notin {"\"", "\n"}
        /\ q = Len(input) \/ input[q + 1] = "\n"

C24_UnterminatedStringFatal ==
    [][(Scanning /\ StartsString /\ Unterminated) =>
         (status' = "panic" /\ rv' = rv /\ kont' = kont)]_vars

(***************************************************************************)
(* C25: the parser's peek at the second token consumes nothing.  The call  *)
(* leaves the scanner position and current_token as they are, and the      *)
(* token it returns is the one that the next bump makes current.  A        *)
(* statement that starts with an identifier is parsed as an assignment     *)
(* exactly when the peeked token is `=`, and as an expression statement    *)
(* otherwise, `==` included.                                               *)
(***************************************************************************)
InParseStmt(pcs) == Parsing("parse_stmt") /\ Top.pc \in pcs
Peeks == InParseStmt({0}) /\ current_token.k = "Ident" /\ status' = "parsing"
Peeked == Top.acc[1]
\* The statement being parsed: the innermost parse_stmt activation.
PeekedInStmt ==
    LET js == {j \in 1..Len(kont) : kont[j].fn = "parse_stmt" /\ kont[j].acc # <<>>} IN
    IF status # "parsing" \/ js = {} THEN <<>>
    ELSE LET j == CHOOSE j \in js : \A j2 \in js : j2 <= j IN <<kont[j].i, kont[j].acc[1]>>
ParseStmtReturns == InParseStmt({1, 2}) /\ status' = "parsing"

\* Texts of the claim's two cases, each with the Program it is to parse to.
IdentCases ==
    {<<<<"x", " ", "=", " ", "1">>, Program(<<>>, <<SAssign("x", EInt(1))>>)>>,
     <<<<"x", "=", "1", "\n">>, Program(<<>>, <<SAssign("x", EInt(1))>>)>>,
     <<<<"x", " ", "=", "=", " ", "1">>,
       Program(<<>>, <<SExprStmt(EBinary(EVar("x"), "Eq", EInt(1)))>>)>>,
     <<<<"x", "=", "=", "1", "\n">>,
       Program(<<>>, <<SExprStmt(EBinary(EVar("x"), "Eq", EInt(1)))>>)>>,
     <<<<"x", " ", "+", " ", "1">>,
       Program(<<>>, <<SExprStmt(EBinary(EVar("x"), "Add", EInt(1)))>>)>>,
     <<<<"x", "\n">>, Program(<<>>, <<SExprStmt(EVar("x"))>>)>>,
     <<<<"x", "=", "1", "\n", "y", "=", "=", "2", "\n">>,
       Program(<<>>, <<SAssign("x", EInt(1)),
                       SExprStmt(EBinary(EVar("y"), "Eq", EInt(2)))>>)>>}

C25_PeekConsumesNothing ==
    /\ [][Peeks => /\ pos' = pos /\ current_token' = current_token /\ input' = input
                   /\ InParseStmt({3})' /\ Len(kont') = Len(kont)]_vars
    /\ [][(PeekedInStmt # <<>> /\ pos = PeekedInStmt[1] /\ pos' # pos /\ status' = "parsing")
            => current_token' = PeekedInStmt[2]]_vars
    /\ [][ParseStmtReturns =>
            /\ rv'.k \in {"Assign", "ExprStmt"}
            /\ rv'.k = "Assign" <=> (Top.acc # <<>> /\ Peeked.k = "Eq")]_vars
    /\ [][ParseReturned =>
            \A case \in IdentCases :
                input = case[1] => status' = "running" /\ program' = case[2]]_vars

\* In `x == 1` the parser has peeked `==` behind the identifier x, which is
\* still the current token.
C25_PeekedEqEq ==
    /\ input = <<"x", " ", "=", "=", " ", "1">>
    /\ InParseStmt({3})
    /\ Peeked = Tok("EqEq")
    /\ current_token = TIdent("x") /\ pos = 1

FromTo(a, b) == VList([j \in 1..(b - a) |-> VInt(a + j - 1)])

\* C27: print(range(a, b)) with a <= b completes having printed the list of
\* the integers from a to b - 1 (range(2, 5) gives [2, 3, 4]), and with
\* a > b it is fatal; print(range(n)) with n >= 0 completes having printed
\* the list of the integers from 0 to n - 1, and with n < 0 it is fatal.
C27_Range ==
    \A bounds \in RangeArgs :
        program = RangeProgram(bounds) /\ Ended =>
            LET a == IF Len(bounds) = 2 THEN bounds[1] ELSE 0
                b == bounds[Len(bounds)]
            IN IF a <= b
               THEN status = "done" /\ output = <<PrintLine(<<FromTo(a, b)>>)>>
               ELSE status = "panic" /\ output = <<>>

(***************************************************************************)
(* C28.  A for-each loop iterates over the value its iterable had at loop  *)
(* entry.                                                                  *)
(***************************************************************************)
Nine(n) == [j \in 1..n |-> VInt(9)]
Ints(l) == [j \in 1..Len(l) |-> VInt(l[j])]

\* xs when the loop over l is over.
XsAfter(l, b) ==
    IF l = <<>> \/ b \in {"plain", "bound"} THEN Ints(l)
    ELSE IF b = "source" THEN <<>>
    ELSE Ints(l) \o Nine(Len(l))

\* The lines printed up to the end of `print(xs)`.
EachListLines(l, src, b) ==
    (IF src = "call" THEN <<PrintLine(<<VStr(<<"e">>)>>)>> ELSE <<>>)
    \o [j \in 1..Len(l) |-> PrintLine(<<VInt(l[j])>>)]
    \o <<PrintLine(<<VList(XsAfter(l, b))>>)>>

EachListCases ==
    {<<EachListProgram(l, src, b), Ints(l), EachListLines(l, src, b)>> :
        l \in EachLists, src \in EachSources, b \in EachListBodies}

\* A pass of the body is starting: the for-each has just called exec_block.
BodyStarts ==
    /\ Running /\ Len(kont) >= 2
    /\ Top.fn = "exec_block" /\ Top.pc = 0
    /\ kont[Len(kont) - 1].fn = "exec_stmt"
    /\ kont[Len(kont) - 1].node.k = "ForEach"

\* The top-level statements up to the loop are over, no other has started.
AfterLoop == Len(kont) = 1 /\ Top.fn = "run" /\ Top.i >= 3

\* C28: in `var xs: list = l; for x in xs-or-mk() { print(x) ... }; print(xs);
\* print(x)`, whatever the body assigns to x or to xs: the iterable is
\* evaluated once (mk prints one line, before the first pass); pass j of
\* the body starts with x bound to element j of l, in the loop's frame and
\* in no other; there are as many passes as l has elements; and after the
\* loop only the global frame is left, x is bound nowhere, and print(x) is
\* fatal.
C28_IteratesEntryValue ==
    \A case \in EachListCases :
        program = case[1] =>
            /\ BodyStarts =>
                 /\ kont[Len(kont) - 1].i <= Len(case[2])
                 /\ get_var(env_stack, "x") = Some(case[2][kont[Len(kont) - 1].i])
                 /\ Binders(env_stack, "x") = {2}
                 /\ Len(env_stack) = 2
            /\ AfterLoop /\ status = "running" =>
                 /\ Len(env_stack) = 1
                 /\ Binders(env_stack, "x") = {}
                 /\ Len(output) >= Len(case[3]) - 1
                 /\ \A j \in 1..Len(output) : output[j] = case[3][j]
            /\ Ended => status = "panic" /\ err = "Undefined variable" /\ output = case[3]

\* The loop over mk() = [1, 2], whose body assigns both x and xs, is over,
\* and print(xs) has shown xs with the two elements the body pushed.
C28_TwoPassesDone ==
    /\ program = EachListProgram(<<1, 2>>, "call", "both")
    /\ Ended
    /\ output = <<PrintLine(<<VStr(<<"e">>)>>), PrintLine(<<VInt(1)>>), PrintLine(<<VInt(2)>>),
                  PrintLine(<<VList(<<VInt(1), VInt(2), VInt(9), VInt(9)>>)>>)>>

(***************************************************************************)
(* C29.  A `return` at top level ends the top-level statement it is in,    *)
(* and no more.                                                            *)
(***************************************************************************)
\* What is printed, and the value of c, when the statement holding the
\* return is over, if the return ends that statement where it is reached.
LinesUpToReturn(w) ==
    IF w \in {"direct", "for_init"} THEN <<>> ELSE <<PrintLine(<<VStr(<<"a">>)>>)>>
CountAtReturn(w) == IF w \in {"while", "for_step"} THEN 1 ELSE 0

TopReturnCases ==
    {<<TopReturnProgram(c[1], c[2]),
       LinesUpToReturn(c[1])
       \o <<PrintLine(<<VStr(<<"n">>)>>), PrintLine(<<VInt(CountAtReturn(c[1]))>>)>>>> :
        c \in TopCases}

\* run is between two top-level statements, or past the last one.
BetweenStatements == Len(kont) = 1 /\ Top.fn = "run"

\* C29: in `var c: int = 0; <a statement holding a return>; print("n");
\* print(c)`, nothing of the statement holding the return is executed after
\* the return is reached, both statements after it are executed in order,
\* the run completes, and between top-level statements the environment
\* stack is the global frame alone.
C29_TopLevelReturn ==
    \A case \in TopReturnCases :
        program = case[1] =>
            /\ BetweenStatements => Len(env_stack) = 1 /\ env_stack[1].id = GlobalId
            /\ status # "panic"
            /\ Len(output) <= Len(case[2])
            /\ \A j \in 1..Len(output) : output[j] = case[2][j]
            /\ status = "done" => output = case[2]

====
